---- MODULE Spec2Model ----
(***************************************************************************)
(* Verification model of borealis:                                         *)
(*   - Box child management and focus resolution (library/lib/core/box.cpp)*)
(*   - the Threading task scheduler (core/thread.cpp)                      *)
(* Several specifications share the module: SpecBox, SpecFocus, SpecNav,   *)
(* SpecChain, SpecLayout, SpecClear, SpecXML, SpecHit, SpecDraw and        *)
(* SpecYoga drive the Box operations, SpecSched and SpecAsync drive the    *)
(* scheduler threads.                                                      *)
(***************************************************************************)
EXTENDS Integers, Sequences, FiniteSets, TLC

(***************************************************************************)
(* Bounds of the model                                                     *)
(***************************************************************************)
NumBoxes == 2
NumLeaves == 2
MaxIndex == 2
MaxOps == 5
MaxTasks == 2
MaxTime == 1
MaxDelay == 1
SizeBits == 8

(***************************************************************************)
(* Program constants                                                       *)
(***************************************************************************)
Null == 0
NoIndex == -1
UB == NoIndex - 1

Boxes == 1..NumBoxes
Leaves == (NumBoxes + 1)..(NumBoxes + NumLeaves)
Views == Boxes \cup Leaves
NumViews == NumBoxes + NumLeaves
SizeMod == 2 ^ SizeBits
Directions == {"UP", "DOWN", "LEFT", "RIGHT"}

VARIABLES
    children,            \* Box::children, per Box
    ygChildren,          \* child list of the Box's YGNode
    parent,              \* View::parent
    parentUserData,      \* View::parentUserdata: the cached index, or NoIndex
    lastFocusedView,     \* Box::lastFocusedView
    defaultFocusedIndex, \* Box::defaultFocusedIndex
    axis,                \* Box::axis
    forwardedAttributes, \* Box::forwardedAttributes: entries name -> (targetName, target)
    alpha,               \* View::alpha: 0 for 0.0f, 1 for any other value
    visibility,          \* View::getVisibility()
    frame,               \* View::getFrame(): x and width, and y and height where draw needs them
    culled,              \* View::isCulled()
    focusable,           \* View::focusable
    detached,            \* View::detached
    layoutDirty,         \* set by invalidate()
    freed,               \* views that were destroyed
    status,              \* "running", "fatal" (fatal() was called) or "ub"
    call,                \* the last operation called, its arguments and results
    opsLeft              \* how many more mutating calls the driver of SpecFocus makes

VARIABLES
    m_sync_functions,    \* Threading::m_sync_functions
    m_async_tasks,       \* Threading::m_async_tasks
    m_delay_tasks,       \* Threading::m_delay_tasks, a sequence of DelayOperation
    m_delay_index,       \* Threading::m_delay_index
    m_delay_cancel_set,  \* Threading::m_delay_cancel_set
    task_loop_active,    \* Threading::task_loop_active
    mutex,               \* owner of m_sync_mutex, m_async_mutex and m_delay_mutex
    now,                 \* std::chrono::high_resolution_clock::now(), in milliseconds
    rpc,                 \* where the render thread is in performSyncTasks
    local,               \* performSyncTasks: the callbacks of `local` still to run
    delay_local,         \* performSyncTasks: the operations of `delay_local` still to visit
    duration,            \* performSyncTasks: the elapsed time read for the current operation
    lpc,                 \* where the background thread is in task_loop
    m_tasks_copy,        \* task_loop: the tasks of `m_tasks_copy` still to run
    nextToken,           \* how many callbacks the callers have created
    executed,            \* log: the callbacks whose body ran, in order
    escaped,             \* log: the callbacks whose exception left performSyncTasks / task_loop
    dropped,             \* log: the delayed callbacks dropped as cancelled
    cancelled,           \* log: the identifiers cancelDelay was called with
    registered,          \* log: every DelayOperation that delay() queued
    enqueued,            \* log: the callbacks passed to sync() and to async(), in call order
    thisTick,            \* log: the identifiers delay() gave to the sync callbacks of this tick
    spc,                 \* where the caller of Threading::stop is
    cancelledInTime      \* log: the pending callbacks cancelled before their delay elapsed

queueVars == <<m_sync_functions, m_async_tasks, m_delay_tasks, m_delay_index,
               m_delay_cancel_set, cancelled, cancelledInTime, registered, enqueued>>

schedVars == <<queueVars, task_loop_active, spc, mutex, now, rpc, local, delay_local,
               duration, lpc, m_tasks_copy, nextToken, thisTick, executed, escaped,
               dropped>>

boxVars == <<children, ygChildren, parent, parentUserData, lastFocusedView,
             defaultFocusedIndex, axis, forwardedAttributes, alpha, visibility, frame, culled,
                   focusable, detached, layoutDirty,
             freed, status, call>>

vars == <<boxVars, opsLeft, schedVars>>

(***************************************************************************)
(* Sequence helpers: std::vector insert / erase / linear search            *)
(***************************************************************************)
Range(s) == {s[i] : i \in 1..Len(s)}

\* children.insert(children.begin() + position, view), position is 0-based
InsertAt(s, position, view) ==
    SubSeq(s, 1, position) \o <<view>> \o SubSeq(s, position + 1, Len(s))

\* children.erase(children.begin() + index), index is 0-based
EraseAt(s, index) ==
    SubSeq(s, 1, index) \o SubSeq(s, index + 2, Len(s))

\* the search loop of removeView: the first i with children[i] == view
FindIndex(s, view) ==
    CHOOSE i \in 0..(Len(s) - 1) :
        /\ s[i + 1] = view
        /\ \A j \in 0..(i - 1) : s[j + 1] # view

NoCall == [op |-> "none", box |-> Null, view |-> Null, pos |-> 0, free |-> FALSE,
           dir |-> "none", ret |-> Null, cand |-> Null, events |-> <<>>]

(***************************************************************************)
(* Collaborators of Box that live outside box.cpp                          *)
(***************************************************************************)
\* YGNodeInsertChild(owner, child, index) on the owner's child list
YGNodeInsertChild(yg, view, position) == InsertAt(yg, position, view)

\* YGNodeRemoveChild(owner, child): nothing happens when child is no child
YGNodeRemoveChild(yg, view) == SelectSeq(yg, LAMBDA x : x # view)

\* View::invalidate(): the layout of the Box is marked dirty
Invalidate(dirty, box) == [dirty EXCEPT ![box] = TRUE]

\* View::getDefaultFocus() of a leaf view: itself when focusable
ViewGetDefaultFocus(view) == IF focusable[view] THEN view ELSE Null

(***************************************************************************)
(* Tree helpers                                                            *)
(***************************************************************************)
RECURSIVE Subtree(_, _)
\* the views a delete of `view` destroys: ~Box deletes every child in turn
Subtree(view, fuel) ==
    IF view \notin Boxes \/ fuel = 0
    THEN {view}
    ELSE {view} \cup UNION {Subtree(children[view][i], fuel - 1) :
                               i \in 1..Len(children[view])}

IsChildSomewhere(view) == \E b \in Boxes : view \in Range(children[b])

\* View::freeView() / delete: the view and, through ~Box, its whole subtree
FreeSet(view, free) == IF free THEN Subtree(view, NumViews) ELSE {}

(***************************************************************************)
(* Box::addView(View* view, size_t position)                               *)
(***************************************************************************)
\* a re-stamping loop that starts at `position`, on the inserted view itself
Restamp_FromPosition(ud, newChildren, position) ==
    [v \in Views |->
        IF /\ \E i \in (position + 1)..Len(newChildren) : newChildren[i] = v
           /\ ud[v] # NoIndex
        THEN (ud[v] + 1) % SizeMod
        ELSE ud[v]]

\* the re-stamping loop: every child after `position` has its index incremented
Restamp(ud, newChildren, position) ==
    [v \in Views |->
        IF /\ \E i \in (position + 2)..Len(newChildren) : newChildren[i] = v
           /\ ud[v] # NoIndex
        THEN (ud[v] + 1) % SizeMod
        ELSE ud[v]]

\* an off-by-one bounds test, which also rejects the append position
PositionOutOfBounds_OffByOne(box, position) ==
    position >= Len(children[box]) \/ position < 0

\* if (position > this->children.size() || position < 0)
PositionOutOfBounds(box, position) == position > Len(children[box]) \/ position < 0

\* fatal(...) ends the call: nothing is inserted
AddViewFatal(box, view, position) ==
    /\ status' = "fatal"
    /\ call' = [NoCall EXCEPT !.op = "addView", !.box = box, !.view = view,
                              !.pos = position, !.events = <<<<"fatal", view>>>>]
    /\ UNCHANGED <<children, ygChildren, parent, parentUserData,
                   lastFocusedView, layoutDirty, freed>>

\* YGNodeInsertChild past the end of the node's child list
AddViewPastYogaEnd(box, view, position) ==
    /\ status' = "ub"
    /\ call' = [NoCall EXCEPT !.op = "addView", !.box = box, !.view = view,
                              !.pos = position, !.ret = UB]
    /\ UNCHANGED <<children, ygChildren, parent, parentUserData,
                   lastFocusedView, layoutDirty, freed>>

AddViewInsert(box, view, position) ==
    LET newChildren == InsertAt(children[box], position, view)
        stamped == [parentUserData EXCEPT ![view] = position]
    IN  /\ \A i \in (position + 1)..Len(children[box]) :
               parentUserData[children[box][i]] < MaxIndex
        /\ children' = [children EXCEPT ![box] = newChildren]
        /\ ygChildren' = [ygChildren EXCEPT ![box] =
               IF detached[view] THEN @ ELSE YGNodeInsertChild(@, view, position)]
        /\ parent' = [parent EXCEPT ![view] = box]
        /\ parentUserData' = Restamp(stamped, newChildren, position)
        /\ layoutDirty' = Invalidate(layoutDirty, box)
        /\ call' = [NoCall EXCEPT !.op = "addView", !.box = box, !.view = view,
                                  !.pos = position,
                                  !.events = <<<<"invalidate", box>>,
                                               <<"willAppear", view>>>>]
        /\ UNCHANGED <<lastFocusedView, freed, status>>

AddView(box, view, position) ==
    /\ status = "running"
    /\ box \in Boxes \ freed
    /\ view \in Views \ freed
    /\ ~IsChildSomewhere(view)
    /\ box \notin Subtree(view, NumViews)
    /\ IF PositionOutOfBounds(box, position)
       THEN AddViewFatal(box, view, position)
       ELSE IF ~detached[view] /\ position > Len(ygChildren[box])
       THEN AddViewPastYogaEnd(box, view, position)
       ELSE AddViewInsert(box, view, position)
    /\ UNCHANGED <<defaultFocusedIndex, axis, forwardedAttributes, alpha, visibility, frame, culled,
                   focusable, detached>>

\* Box::addView(View* view): position = YGNodeGetChildCount(this->ygNode)
AddViewLast(box, view) == AddView(box, view, Len(ygChildren[box]))

(***************************************************************************)
(* Box::removeView(View* view, bool free)                                  *)
(***************************************************************************)
\* the state of the views in `gone` after their destruction
Destroy(f, gone, empty) == [v \in DOMAIN f |-> IF v \in gone THEN empty ELSE f[v]]

\* removeView without the early returns: the hook and invalidate() still run
RemoveViewNotFound_NoEarlyReturn(box, view, free) ==
    /\ call' = [NoCall EXCEPT !.op = "removeView", !.box = box,
                              !.view = view, !.free = free,
                              !.events = <<<<"willDisappear", view>>,
                                           <<"invalidate", box>>>>]
    /\ layoutDirty' = Invalidate(layoutDirty, box)
    /\ UNCHANGED <<children, ygChildren, parent, parentUserData,
                   lastFocusedView, freed>>

\* if (!view) return;  ...  if (!found) return;
RemoveViewNotFound(box, view, free) ==
    /\ call' = [NoCall EXCEPT !.op = "removeView", !.box = box,
                              !.view = view, !.free = free]
    /\ UNCHANGED <<children, ygChildren, parent, parentUserData,
                   lastFocusedView, layoutDirty, freed>>

RemoveViewFound(box, view, free) ==
    LET index == FindIndex(children[box], view)
        gone == FreeSet(view, free)
        erased == [children EXCEPT ![box] = EraseAt(@, index)]
        ygRemoved == [ygChildren EXCEPT ![box] =
                         IF detached[view] THEN @ ELSE YGNodeRemoveChild(@, view)]
    IN  /\ children' = Destroy(erased, gone, <<>>)
        /\ ygChildren' = Destroy(ygRemoved, gone, <<>>)
        /\ parent' = Destroy(parent, gone, Null)
        /\ parentUserData' = Destroy(parentUserData, gone, NoIndex)
        /\ lastFocusedView' = Destroy(lastFocusedView, gone, Null)
        /\ freed' = freed \cup gone
        /\ layoutDirty' = Invalidate(layoutDirty, box)
        /\ call' = [NoCall EXCEPT !.op = "removeView", !.box = box,
                       !.view = view, !.free = free, !.pos = index,
                       !.events = <<<<"willDisappear", view>>>>
                           \o (IF free THEN <<<<"freeView", view>>>> ELSE <<>>)
                           \o <<<<"invalidate", box>>>>]

RemoveView(box, view, free) ==
    /\ status = "running"
    /\ box \in Boxes \ freed
    /\ view \in (Views \ freed) \cup {Null}
    /\ IF view = Null \/ view \notin Range(children[box])
       THEN RemoveViewNotFound(box, view, free)
       ELSE RemoveViewFound(box, view, free)
    /\ UNCHANGED <<defaultFocusedIndex, axis, forwardedAttributes, alpha, visibility, frame, culled,
                   focusable, detached, status>>

(***************************************************************************)
(* Box::clearViews(bool free)                                              *)
(***************************************************************************)
\* a removal loop that takes the children from the front
Reverse_FrontToBack(s) == s

\* the removal loop takes children.back() until the sequence is empty
Reverse(s) == [i \in 1..Len(s) |-> s[Len(s) + 1 - i]]

RECURSIVE ClearEvents(_, _)
ClearEvents(backToFront, free) ==
    IF backToFront = <<>>
    THEN <<>>
    ELSE <<<<"willDisappear", Head(backToFront)>>>>
         \o (IF free THEN <<<<"freeView", Head(backToFront)>>>> ELSE <<>>)
         \o ClearEvents(Tail(backToFront), free)

ClearViews(box, free) ==
    /\ status = "running"
    /\ box \in Boxes \ freed
    /\ LET views == children[box]
           gone == UNION {FreeSet(views[i], free) : i \in 1..Len(views)}
       IN  /\ children' = Destroy([children EXCEPT ![box] = <<>>], gone, <<>>)
           /\ ygChildren' = Destroy([ygChildren EXCEPT ![box] = <<>>], gone, <<>>)
           /\ parent' = Destroy(parent, gone, Null)
           /\ parentUserData' = Destroy(parentUserData, gone, NoIndex)
           /\ lastFocusedView' =
                  Destroy([lastFocusedView EXCEPT ![box] = Null], gone, Null)
           /\ freed' = freed \cup gone
           /\ layoutDirty' = Invalidate(layoutDirty, box)
           /\ call' = [NoCall EXCEPT !.op = "clearViews", !.box = box, !.free = free,
                          !.events = ClearEvents(Reverse(views), free)
                                         \o <<<<"invalidate", box>>>>]
    /\ UNCHANGED <<defaultFocusedIndex, axis, forwardedAttributes, alpha, visibility, frame, culled,
                   focusable, detached, status>>

(***************************************************************************)
(* Box::onChildFocusGained(View* directChild, View* focusedView)           *)
(***************************************************************************)
RECURSIVE OnChildFocusGained(_, _, _, _)
\* the lastFocusedView of every Box after the notification went up the parent chain
OnChildFocusGained(lfv, box, directChild, fuel) ==
    LET stamped == [lfv EXCEPT ![box] = directChild]
    IN  IF parent[box] # Null /\ parent[box] \notin freed /\ fuel > 1
        THEN OnChildFocusGained(stamped, parent[box], box, fuel - 1)
        ELSE stamped

RECURSIVE ParentChainBroken(_, _)
\* the walk up getParent() reaches a destroyed Box, or never ends
ParentChainBroken(box, fuel) ==
    IF box \in freed \/ fuel = 0 THEN TRUE
    ELSE IF parent[box] = Null THEN FALSE
    ELSE ParentChainBroken(parent[box], fuel - 1)

\* View::onFocusGained() of a focusable view that sits in a Box:
\* getParent()->onChildFocusGained(this, this)
FocusGained(view) ==
    /\ status = "running"
    /\ view \in Views \ freed
    /\ focusable[view]
    /\ parent[view] # Null
    /\ parent[view] \notin freed
    /\ view \in Range(children[parent[view]])
    /\ IF ParentChainBroken(parent[view], NumViews)
       THEN /\ status' = "ub"
            /\ call' = [NoCall EXCEPT !.op = "focusGained", !.view = view, !.ret = UB]
            /\ UNCHANGED lastFocusedView
       ELSE /\ lastFocusedView' =
                   OnChildFocusGained(lastFocusedView, parent[view], view, NumViews)
            /\ call' = [NoCall EXCEPT !.op = "focusGained", !.view = view]
            /\ UNCHANGED status
    /\ UNCHANGED <<children, ygChildren, parent, parentUserData, defaultFocusedIndex,
                   axis, forwardedAttributes, alpha, visibility, frame, culled,
                   focusable, detached, layoutDirty, freed>>

RECURSIVE OnChildFocusLost(_, _)
\* the Boxes whose onChildFocusLost runs, from the parent of the view upwards
OnChildFocusLost(box, fuel) ==
    IF parent[box] # Null /\ parent[box] \notin freed /\ fuel > 1
    THEN <<<<"onChildFocusLost", box>>>> \o OnChildFocusLost(parent[box], fuel - 1)
    ELSE <<<<"onChildFocusLost", box>>>>

\* View::onFocusLost() of a focusable view that sits in a Box:
\* getParent()->onChildFocusLost(this, this)
FocusLost(view) ==
    /\ status = "running"
    /\ view \in Views \ freed
    /\ focusable[view]
    /\ parent[view] # Null
    /\ parent[view] \notin freed
    /\ view \in Range(children[parent[view]])
    /\ IF ParentChainBroken(parent[view], NumViews)
       THEN /\ status' = "ub"
            /\ call' = [NoCall EXCEPT !.op = "focusLost", !.view = view, !.ret = UB]
       ELSE /\ call' = [NoCall EXCEPT !.op = "focusLost", !.view = view,
                           !.events = OnChildFocusLost(parent[view], NumViews)]
            /\ UNCHANGED status
    /\ UNCHANGED <<children, ygChildren, parent, parentUserData, lastFocusedView,
                   defaultFocusedIndex, axis, forwardedAttributes, alpha, visibility,
                   frame, culled, focusable, detached, layoutDirty, freed>>

(***************************************************************************)
(* Box::getDefaultFocus()                                                  *)
(***************************************************************************)
RECURSIVE GetDefaultFocus(_, _)
RECURSIVE FirstFocusable(_, _, _)

\* the fallback loop: the first child from index i whose default focus is not null
FirstFocusable(box, i, fuel) ==
    IF i >= Len(children[box])
    THEN Null
    ELSE LET newFocus == GetDefaultFocus(children[box][i + 1], fuel)
         IN  IF newFocus # Null THEN newFocus ELSE FirstFocusable(box, i + 1, fuel)

\* a view, Null, or UB when the call reads a destroyed view or recurses for ever
GetDefaultFocus(view, fuel) ==
    IF view \in freed \/ fuel = 0 THEN UB
    ELSE IF view \in Leaves THEN ViewGetDefaultFocus(view)
    ELSE IF focusable[view] THEN view
    ELSE IF lastFocusedView[view] # Null
    THEN GetDefaultFocus(lastFocusedView[view], fuel - 1)
    ELSE LET byIndex ==
                 IF defaultFocusedIndex[view] < Len(children[view])
                 THEN GetDefaultFocus(
                          children[view][defaultFocusedIndex[view] + 1], fuel - 1)
                 ELSE Null
         IN  IF byIndex # Null THEN byIndex ELSE FirstFocusable(view, 0, fuel - 1)

GetDefaultFocusCall(box) ==
    /\ status = "running"
    /\ box \in Boxes \ freed
    /\ LET ret == GetDefaultFocus(box, NumViews)
       IN  /\ call' = [NoCall EXCEPT !.op = "getDefaultFocus", !.box = box, !.ret = ret]
           /\ status' = IF ret = UB THEN "ub" ELSE status
    /\ UNCHANGED <<children, ygChildren, parent, parentUserData, lastFocusedView,
                   defaultFocusedIndex, axis, forwardedAttributes, alpha, visibility, frame, culled,
                   focusable, detached, layoutDirty, freed>>

(***************************************************************************)
(* Box::getNextFocus(FocusDirection direction, View* currentView)          *)
(***************************************************************************)
\* an axis test that lets every direction through to the sibling scan
Aligned_AnyDirection(box, direction) == direction \in Directions

\* the direction is one the axis of the Box services
Aligned(box, direction) ==
    \/ axis[box] = "ROW" /\ direction \in {"LEFT", "RIGHT"}
    \/ axis[box] = "COLUMN" /\ direction \in {"UP", "DOWN"}

\* size_t offset = 1, or -1 converted to size_t
Offset(box, direction) ==
    IF \/ axis[box] = "ROW" /\ direction = "LEFT"
       \/ axis[box] = "COLUMN" /\ direction = "UP"
    THEN SizeMod - 1
    ELSE 1

\* a scan that stops at the first sibling, whatever its default focus is
TraverseChildren_NoSkip(box, currentFocusIndex, offset) ==
    IF currentFocusIndex >= 0 /\ currentFocusIndex < Len(children[box])
    THEN GetDefaultFocus(children[box][currentFocusIndex + 1], NumViews)
    ELSE Null

RECURSIVE TraverseChildren(_, _, _)
\* the while loop over the siblings, from currentFocusIndex on
TraverseChildren(box, currentFocusIndex, offset) ==
    IF currentFocusIndex >= 0 /\ currentFocusIndex < Len(children[box])
    THEN LET currentFocus ==
                 GetDefaultFocus(children[box][currentFocusIndex + 1], NumViews)
         IN  IF currentFocus # Null
             THEN currentFocus
             ELSE TraverseChildren(box, (currentFocusIndex + offset) % SizeMod, offset)
    ELSE Null

\* the candidate of the local scan; UB when the cached index is a null pointer
LocalScan(box, direction, currentView) ==
    IF parentUserData[currentView] = NoIndex
    THEN UB
    ELSE TraverseChildren(box,
             (parentUserData[currentView] + Offset(box, direction)) % SizeMod,
             Offset(box, direction))

\* Box::getParentNavigationDecision: newFocus handed up to the root unchanged
GetParentNavigationDecision(box, newFocus) ==
    IF ParentChainBroken(box, NumViews) THEN UB ELSE newFocus

RECURSIVE GetNextFocus(_, _, _, _)
GetNextFocus(box, direction, currentView, fuel) ==
    IF box \in freed \/ currentView \in freed \/ fuel = 0 THEN UB
    ELSE LET scanned == IF Aligned(box, direction)
                        THEN LocalScan(box, direction, currentView)
                        ELSE Null
             next == IF scanned = UB THEN UB
                     ELSE GetParentNavigationDecision(box, scanned)
         IN  IF next = Null /\ parent[box] # Null
             THEN GetNextFocus(parent[box], direction, box, fuel - 1)
             ELSE next

GetNextFocusCall(box, direction, currentView) ==
    /\ status = "running"
    /\ box \in Boxes \ freed
    /\ currentView \in Range(children[box])
    /\ LET ret == GetNextFocus(box, direction, currentView, NumViews)
           cand == IF Aligned(box, direction)
                   THEN LocalScan(box, direction, currentView)
                   ELSE Null
       IN  /\ call' = [NoCall EXCEPT !.op = "getNextFocus", !.box = box,
                          !.view = currentView, !.dir = direction,
                          !.cand = cand, !.ret = ret]
           /\ status' = IF ret = UB \/ cand = UB THEN "ub" ELSE status
    /\ UNCHANGED <<children, ygChildren, parent, parentUserData, lastFocusedView,
                   defaultFocusedIndex, axis, forwardedAttributes, alpha, visibility, frame, culled,
                   focusable, detached, layoutDirty, freed>>

(***************************************************************************)
(* Threading: the task scheduler                                           *)
(***************************************************************************)
Mutexes == {"sync", "async", "delay"}

\* what the body of a callback does: return, let an exception escape
\* (derived from std::exception or not), or call the scheduler
Bodies == {"return", "throwStd", "throwOther", "sync", "async", "delay", "cancel"}
Spawning == {"sync", "async", "delay"}

\* a std::function<void()>: `child` is the callback its body hands to the
\* scheduler, `ms` the delay it asks for
Callback(token, body, ms) ==
    [token |-> token, body |-> body, ms |-> ms,
     child |-> IF body \in Spawning THEN token + 1 ELSE 0]

ChildOf(f) == [token |-> f.child, body |-> "return", ms |-> 0, child |-> 0]

\* an entry of the log of executed callbacks
Ran(f, thread) == [token |-> f.token, body |-> f.body, by |-> thread]

\* the tokens of the callbacks whose body ran
ExecutedTokens == {e.token : e \in Range(executed)}

\* the delayed operations that did not run yet
Pending ==
    {op \in Range(m_delay_tasks) \cup Range(delay_local) :
        op.func.token \notin ExecutedTokens}

\* sync() that puts the callback at the front of the queue
Sync_PushFront(func) ==
    /\ mutex["sync"] = "none"
    /\ m_sync_functions' = <<func>> \o m_sync_functions
    /\ enqueued' = [enqueued EXCEPT !.sync = Append(@, func.token)]
    /\ UNCHANGED <<m_async_tasks, m_delay_tasks, m_delay_index,
                   m_delay_cancel_set, cancelled, cancelledInTime, registered>>

\* Threading::sync
Sync(func) ==
    /\ mutex["sync"] = "none"
    /\ m_sync_functions' = Append(m_sync_functions, func)
    /\ enqueued' = [enqueued EXCEPT !.sync = Append(@, func.token)]
    /\ UNCHANGED <<m_async_tasks, m_delay_tasks, m_delay_index,
                   m_delay_cancel_set, cancelled, cancelledInTime, registered>>

\* Threading::async
Async(task) ==
    /\ mutex["async"] = "none"
    /\ m_async_tasks' = Append(m_async_tasks, task)
    /\ enqueued' = [enqueued EXCEPT !.async = Append(@, task.token)]
    /\ UNCHANGED <<m_sync_functions, m_delay_tasks, m_delay_index,
                   m_delay_cancel_set, cancelled, cancelledInTime, registered>>

\* delay() with operation.index = m_delay_index++
Delay_PostIncrement(milliseconds, func) ==
    /\ mutex["delay"] = "none"
    /\ m_delay_index' = m_delay_index + 1
    /\ m_delay_tasks' = Append(m_delay_tasks,
           [startPoint |-> now, delayMilliseconds |-> milliseconds,
            func |-> func, index |-> m_delay_index])
    /\ registered' = registered \cup
           {[startPoint |-> now, delayMilliseconds |-> milliseconds,
             func |-> func, index |-> m_delay_index]}
    /\ UNCHANGED <<m_sync_functions, m_async_tasks, m_delay_cancel_set,
                   cancelled, cancelledInTime, enqueued>>

\* Threading::delay
Delay(milliseconds, func) ==
    /\ mutex["delay"] = "none"
    /\ m_delay_index' = m_delay_index + 1
    /\ m_delay_tasks' = Append(m_delay_tasks,
           [startPoint |-> now, delayMilliseconds |-> milliseconds,
            func |-> func, index |-> m_delay_index + 1])
    /\ registered' = registered \cup
           {[startPoint |-> now, delayMilliseconds |-> milliseconds,
             func |-> func, index |-> m_delay_index + 1]}
    /\ UNCHANGED <<m_sync_functions, m_async_tasks, m_delay_cancel_set,
                   cancelled, cancelledInTime, enqueued>>

\* Threading::cancelDelay
CancelDelay(iter) ==
    /\ mutex["delay"] = "none"
    /\ m_delay_cancel_set' = m_delay_cancel_set \cup {iter}
    /\ cancelled' = cancelled \cup {iter}
    /\ cancelledInTime' = cancelledInTime \cup
           {op.func.token : op \in {o \in Pending :
                /\ o.index = iter
                /\ now - o.startPoint < o.delayMilliseconds}}
    /\ UNCHANGED <<m_sync_functions, m_async_tasks, m_delay_tasks, m_delay_index,
                   registered, enqueued>>

\* f(): what running the body of a callback does to the scheduler
Body(f) ==
    CASE f.body = "sync" -> Sync(ChildOf(f))
      [] f.body = "async" -> Async(ChildOf(f))
      [] f.body = "delay" -> Delay(f.ms, ChildOf(f))
      [] f.body = "cancel" -> \E iter \in 1..MaxTasks : CancelDelay(iter)
      [] OTHER -> UNCHANGED queueVars

\* catch (std::exception& e): what the handler of performSyncTasks lets through
EscapesCatch(f) == f.body = "throwOther"

\* task_loop has no handler: every exception leaves the thread function
EscapesLoop(f) == f.body \in {"throwStd", "throwOther"}

Running == lpc # "terminated"

(***************************************************************************)
(* Calls from another thread                                               *)
(***************************************************************************)
\* the tokens a new callback takes: its own and the one of its child
Cost(body) == IF body \in Spawning THEN 2 ELSE 1

\* the delays a body can ask for: only a body that calls delay() asks for one
DelaysOf(body) == IF body = "delay" THEN 0..MaxDelay ELSE {0}

ClientSync(body, ms) ==
    /\ Running
    /\ nextToken + Cost(body) <= MaxTasks
    /\ Sync(Callback(nextToken + 1, body, ms))
    /\ nextToken' = nextToken + Cost(body)
    /\ UNCHANGED <<task_loop_active, spc, mutex, now, rpc, local, delay_local, duration,
                   lpc, m_tasks_copy, thisTick, executed, escaped, dropped>>

ClientAsync(body, ms) ==
    /\ Running
    /\ nextToken + Cost(body) <= MaxTasks
    /\ Async(Callback(nextToken + 1, body, ms))
    /\ nextToken' = nextToken + Cost(body)
    /\ UNCHANGED <<task_loop_active, spc, mutex, now, rpc, local, delay_local, duration,
                   lpc, m_tasks_copy, thisTick, executed, escaped, dropped>>

ClientDelay(milliseconds, body, ms) ==
    /\ Running
    /\ nextToken + Cost(body) <= MaxTasks
    /\ Delay(milliseconds, Callback(nextToken + 1, body, ms))
    /\ nextToken' = nextToken + Cost(body)
    /\ UNCHANGED <<task_loop_active, spc, mutex, now, rpc, local, delay_local, duration,
                   lpc, m_tasks_copy, thisTick, executed, escaped, dropped>>

ClientCancelDelay(iter) ==
    /\ Running
    /\ CancelDelay(iter)
    /\ UNCHANGED <<task_loop_active, spc, mutex, now, rpc, local, delay_local, duration,
                   lpc, m_tasks_copy, nextToken, thisTick, executed, escaped, dropped>>

\* Threading::stop: task_loop_active = false
Stop ==
    /\ Running
    /\ task_loop_active
    /\ spc = "none"
    /\ task_loop_active' = FALSE
    /\ spc' = "join"
    /\ UNCHANGED <<queueVars, mutex, now, rpc, local, delay_local, duration,
                   lpc, m_tasks_copy, nextToken, thisTick, executed, escaped, dropped>>

\* the join without waiting for the end of the thread
StopJoin_NoWait ==
    /\ Running
    /\ spc = "join"
    /\ spc' = "returned"
    /\ UNCHANGED <<queueVars, task_loop_active, mutex, now, rpc, local, delay_local,
                   duration, lpc, m_tasks_copy, nextToken, thisTick, executed, escaped,
                   dropped>>

\* Threading::stop: pthread_join(task_loop_thread, NULL) returns
StopJoin ==
    /\ Running
    /\ spc = "join"
    /\ lpc = "done"
    /\ spc' = "returned"
    /\ UNCHANGED <<queueVars, task_loop_active, mutex, now, rpc, local, delay_local,
                   duration, lpc, m_tasks_copy, nextToken, thisTick, executed, escaped,
                   dropped>>

\* the clock advances
Tick ==
    /\ Running
    /\ now < MaxTime
    /\ now' = now + 1
    /\ UNCHANGED <<queueVars, task_loop_active, spc, mutex, rpc, local, delay_local,
                   duration, lpc, m_tasks_copy, nextToken, thisTick, executed, escaped, dropped>>

(***************************************************************************)
(* Threading::performSyncTasks, on the render thread                       *)
(***************************************************************************)
\* m_sync_mutex.lock()
LockSync ==
    /\ Running
    /\ rpc = "idle"
    /\ mutex["sync"] = "none"
    /\ mutex' = [mutex EXCEPT !["sync"] = "render"]
    /\ rpc' = "swapSync"
    /\ thisTick' = {}
    /\ UNCHANGED <<queueVars, task_loop_active, spc, now, local, delay_local, duration,
                   lpc, m_tasks_copy, nextToken, executed, escaped, dropped>>

\* the swap of the sync queue without its m_sync_mutex.unlock()
SwapSync_NoUnlock ==
    /\ Running
    /\ rpc = "swapSync"
    /\ local' = m_sync_functions
    /\ m_sync_functions' = <<>>
    /\ rpc' = "runSync"
    /\ UNCHANGED <<m_async_tasks, m_delay_tasks, m_delay_index, m_delay_cancel_set,
                   cancelled, cancelledInTime, registered, enqueued, task_loop_active, spc, mutex, now,
                   delay_local, duration, lpc, m_tasks_copy, nextToken, thisTick, executed,
                   escaped, dropped>>

\* auto local = m_sync_functions; m_sync_functions.clear(); m_sync_mutex.unlock()
SwapSync ==
    /\ Running
    /\ rpc = "swapSync"
    /\ local' = m_sync_functions
    /\ m_sync_functions' = <<>>
    /\ mutex' = [mutex EXCEPT !["sync"] = "none"]
    /\ rpc' = "runSync"
    /\ UNCHANGED <<m_async_tasks, m_delay_tasks, m_delay_index, m_delay_cancel_set,
                   cancelled, cancelledInTime, registered, enqueued, task_loop_active, spc, now, delay_local,
                   duration, lpc, m_tasks_copy, nextToken, thisTick, executed, escaped, dropped>>

\* for (auto& f : local) try { f(); } catch (std::exception& e) { ... }
RunSync ==
    /\ Running
    /\ rpc = "runSync"
    /\ local # <<>>
    /\ Body(Head(local))
    /\ thisTick' = IF Head(local).body = "delay"
                   THEN thisTick \cup {m_delay_index + 1} ELSE thisTick
    /\ executed' = Append(executed, Ran(Head(local), "render"))
    /\ IF EscapesCatch(Head(local))
       THEN /\ escaped' = Append(escaped, <<"render", Head(local).token>>)
            /\ local' = <<>>
            /\ rpc' = "idle"
       ELSE /\ local' = Tail(local)
            /\ UNCHANGED <<escaped, rpc>>
    /\ UNCHANGED <<task_loop_active, spc, mutex, now, delay_local, duration, lpc,
                   m_tasks_copy, nextToken, dropped>>

\* the loop over `local` is over: m_delay_mutex.lock()
LockDelay ==
    /\ Running
    /\ rpc = "runSync"
    /\ local = <<>>
    /\ mutex["delay"] = "none"
    /\ mutex' = [mutex EXCEPT !["delay"] = "render"]
    /\ rpc' = "swapDelay"
    /\ UNCHANGED <<queueVars, task_loop_active, spc, now, local, delay_local, duration,
                   lpc, m_tasks_copy, nextToken, thisTick, executed, escaped, dropped>>

\* auto delay_local = m_delay_tasks; m_delay_tasks.clear(); m_delay_mutex.unlock()
SwapDelay ==
    /\ Running
    /\ rpc = "swapDelay"
    /\ delay_local' = m_delay_tasks
    /\ m_delay_tasks' = <<>>
    /\ mutex' = [mutex EXCEPT !["delay"] = "none"]
    /\ rpc' = "visit"
    /\ UNCHANGED <<m_sync_functions, m_async_tasks, m_delay_index, m_delay_cancel_set,
                   cancelled, cancelledInTime, registered, enqueued, task_loop_active, spc, now, local,
                   duration, lpc, m_tasks_copy, nextToken, thisTick, executed, escaped, dropped>>

\* for (auto& d : delay_local): m_delay_mutex.lock() of the cancel check
LockCheck ==
    /\ Running
    /\ rpc = "visit"
    /\ delay_local # <<>>
    /\ mutex["delay"] = "none"
    /\ mutex' = [mutex EXCEPT !["delay"] = "render"]
    /\ rpc' = "check"
    /\ UNCHANGED <<queueVars, task_loop_active, spc, now, local, delay_local, duration,
                   lpc, m_tasks_copy, nextToken, thisTick, executed, escaped, dropped>>

\* the loop over `delay_local` is over: performSyncTasks returns
EndTick ==
    /\ Running
    /\ rpc = "visit"
    /\ delay_local = <<>>
    /\ rpc' = "idle"
    /\ UNCHANGED <<queueVars, task_loop_active, spc, mutex, now, local, delay_local,
                   duration, lpc, m_tasks_copy, nextToken, thisTick, executed, escaped, dropped>>

\* a cancel check that drops the operation and keeps its id in the cancel set
CheckCancel_KeepsId ==
    /\ Running
    /\ rpc = "check"
    /\ LET d == Head(delay_local)
       IN  IF d.index \in m_delay_cancel_set
           THEN /\ m_delay_cancel_set' = m_delay_cancel_set
                /\ dropped' = dropped \cup {d}
                /\ delay_local' = Tail(delay_local)
                /\ rpc' = "visit"
           ELSE /\ rpc' = "time"
                /\ UNCHANGED <<m_delay_cancel_set, dropped, delay_local>>
    /\ mutex' = [mutex EXCEPT !["delay"] = "none"]
    /\ UNCHANGED <<m_sync_functions, m_async_tasks, m_delay_tasks, m_delay_index,
                   cancelled, cancelledInTime, registered, enqueued, task_loop_active, spc, now, local,
                   duration, lpc, m_tasks_copy, nextToken, thisTick, executed, escaped>>

\* if (m_delay_cancel_set.count(d.index)) { erase; unlock; continue; } unlock
CheckCancel ==
    /\ Running
    /\ rpc = "check"
    /\ LET d == Head(delay_local)
       IN  IF d.index \in m_delay_cancel_set
           THEN /\ m_delay_cancel_set' = m_delay_cancel_set \ {d.index}
                /\ dropped' = dropped \cup {d}
                /\ delay_local' = Tail(delay_local)
                /\ rpc' = "visit"
           ELSE /\ rpc' = "time"
                /\ UNCHANGED <<m_delay_cancel_set, dropped, delay_local>>
    /\ mutex' = [mutex EXCEPT !["delay"] = "none"]
    /\ UNCHANGED <<m_sync_functions, m_async_tasks, m_delay_tasks, m_delay_index,
                   cancelled, cancelledInTime, registered, enqueued, task_loop_active, spc, now, local,
                   duration, lpc, m_tasks_copy, nextToken, thisTick, executed, escaped>>

\* if (duration >= d.delayMilliseconds)
Elapsed(elapsed, d) == elapsed >= d.delayMilliseconds

\* timeNow = now(); duration = timeNow - d.startPoint; the test of the delay
ReadTime ==
    /\ Running
    /\ rpc = "time"
    /\ duration' = now - Head(delay_local).startPoint
    /\ rpc' = IF Elapsed(duration', Head(delay_local)) THEN "exec" ELSE "lockPush"
    /\ UNCHANGED <<queueVars, task_loop_active, spc, mutex, now, local, delay_local,
                   lpc, m_tasks_copy, nextToken, thisTick, executed, escaped, dropped>>

\* try { d.func(); } catch (std::exception& e) { ... }
RunDelayed ==
    /\ Running
    /\ rpc = "exec"
    /\ Body(Head(delay_local).func)
    /\ executed' = Append(executed, Ran(Head(delay_local).func, "render"))
    /\ IF EscapesCatch(Head(delay_local).func)
       THEN /\ escaped' = Append(escaped, <<"render", Head(delay_local).func.token>>)
            /\ delay_local' = <<>>
            /\ duration' = 0
            /\ rpc' = "idle"
       ELSE /\ rpc' = "lockErase"
            /\ UNCHANGED <<escaped, delay_local, duration>>
    /\ UNCHANGED <<task_loop_active, spc, mutex, now, local, lpc, m_tasks_copy,
                   nextToken, thisTick, dropped>>

\* m_delay_mutex.lock() after d.func()
LockErase ==
    /\ Running
    /\ rpc = "lockErase"
    /\ mutex["delay"] = "none"
    /\ mutex' = [mutex EXCEPT !["delay"] = "render"]
    /\ rpc' = "erase"
    /\ UNCHANGED <<queueVars, task_loop_active, spc, now, local, delay_local, duration,
                   lpc, m_tasks_copy, nextToken, thisTick, executed, escaped, dropped>>

\* if (m_delay_cancel_set.count(d.index)) m_delay_cancel_set.erase(d.index); unlock
EraseCancel ==
    /\ Running
    /\ rpc = "erase"
    /\ m_delay_cancel_set' = m_delay_cancel_set \ {Head(delay_local).index}
    /\ mutex' = [mutex EXCEPT !["delay"] = "none"]
    /\ delay_local' = Tail(delay_local)
    /\ duration' = 0
    /\ rpc' = "visit"
    /\ UNCHANGED <<m_sync_functions, m_async_tasks, m_delay_tasks, m_delay_index,
                   cancelled, cancelledInTime, registered, enqueued, task_loop_active, spc, now, local,
                   lpc, m_tasks_copy, nextToken, thisTick, executed, escaped, dropped>>

\* else: m_delay_mutex.lock()
LockPush ==
    /\ Running
    /\ rpc = "lockPush"
    /\ mutex["delay"] = "none"
    /\ mutex' = [mutex EXCEPT !["delay"] = "render"]
    /\ rpc' = "push"
    /\ UNCHANGED <<queueVars, task_loop_active, spc, now, local, delay_local, duration,
                   lpc, m_tasks_copy, nextToken, thisTick, executed, escaped, dropped>>

\* m_delay_tasks.push_back(d); m_delay_mutex.unlock()
PushBack ==
    /\ Running
    /\ rpc = "push"
    /\ m_delay_tasks' = Append(m_delay_tasks, Head(delay_local))
    /\ mutex' = [mutex EXCEPT !["delay"] = "none"]
    /\ delay_local' = Tail(delay_local)
    /\ duration' = 0
    /\ rpc' = "visit"
    /\ UNCHANGED <<m_sync_functions, m_async_tasks, m_delay_index, m_delay_cancel_set,
                   cancelled, cancelledInTime, registered, enqueued, task_loop_active, spc, now, local,
                   lpc, m_tasks_copy, nextToken, thisTick, executed, escaped, dropped>>

(***************************************************************************)
(* Threading::task_loop, on the background thread                          *)
(***************************************************************************)
\* the test of the while loop reads the flag that stop() wrote: the flag is
\* declared outside this file, its write is taken to be visible to the loop
StopObserved == ~task_loop_active

\* while (task_loop_active) { std::lock_guard<std::mutex> guard(m_async_mutex);
LoopLock ==
    /\ lpc = "test"
    /\ ~StopObserved
    /\ mutex["async"] = "none"
    /\ mutex' = [mutex EXCEPT !["async"] = "loop"]
    /\ lpc' = "swap"
    /\ UNCHANGED <<queueVars, task_loop_active, spc, now, rpc, local, delay_local,
                   duration, m_tasks_copy, nextToken, thisTick, executed, escaped, dropped>>

\* while (task_loop_active) is false: return NULL
LoopExit ==
    /\ lpc = "test"
    /\ StopObserved
    /\ lpc' = "done"
    /\ UNCHANGED <<queueVars, task_loop_active, spc, mutex, now, rpc, local, delay_local,
                   duration, m_tasks_copy, nextToken, thisTick, executed, escaped, dropped>>

\* the swap of the async queue without m_async_tasks.clear()
LoopSwap_NoClear ==
    /\ lpc = "swap"
    /\ m_tasks_copy' = m_async_tasks
    /\ mutex' = [mutex EXCEPT !["async"] = "none"]
    /\ lpc' = "run"
    /\ UNCHANGED <<m_sync_functions, m_async_tasks, m_delay_tasks, m_delay_index,
                   m_delay_cancel_set, cancelled, cancelledInTime, registered, enqueued,
                   task_loop_active, spc, now, rpc, local, delay_local, duration,
                   nextToken, thisTick, executed, escaped, dropped>>

\* m_tasks_copy = m_async_tasks; m_async_tasks.clear(); } releases the guard
LoopSwap ==
    /\ lpc = "swap"
    /\ m_tasks_copy' = m_async_tasks
    /\ m_async_tasks' = <<>>
    /\ mutex' = [mutex EXCEPT !["async"] = "none"]
    /\ lpc' = "run"
    /\ UNCHANGED <<m_sync_functions, m_delay_tasks, m_delay_index, m_delay_cancel_set,
                   cancelled, cancelledInTime, registered, enqueued, task_loop_active, spc, now, rpc, local,
                   delay_local, duration, nextToken, thisTick, executed, escaped, dropped>>

\* for (auto task : m_tasks_copy) task();
LoopRun ==
    /\ lpc = "run"
    /\ m_tasks_copy # <<>>
    /\ Body(Head(m_tasks_copy))
    /\ executed' = Append(executed, Ran(Head(m_tasks_copy), "loop"))
    /\ IF EscapesLoop(Head(m_tasks_copy))
       THEN \* the exception leaves the thread function: std::terminate
            /\ escaped' = Append(escaped, <<"loop", Head(m_tasks_copy).token>>)
            /\ lpc' = "terminated"
            /\ UNCHANGED m_tasks_copy
       ELSE /\ m_tasks_copy' = Tail(m_tasks_copy)
            /\ UNCHANGED <<escaped, lpc>>
    /\ UNCHANGED <<task_loop_active, spc, mutex, now, rpc, local, delay_local, duration,
                   nextToken, thisTick, dropped>>

\* retro_sleep(500); and back to the test of the while loop
LoopSleep ==
    /\ lpc = "run"
    /\ m_tasks_copy = <<>>
    /\ lpc' = "test"
    /\ UNCHANGED <<queueVars, task_loop_active, spc, mutex, now, rpc, local, delay_local,
                   duration, m_tasks_copy, nextToken, thisTick, executed, escaped, dropped>>

\* Box::Box(Axis axis) and View::View(): empty Boxes and views without parent
InitViews ==
    /\ children = [b \in Boxes |-> <<>>]
    /\ ygChildren = [b \in Boxes |-> <<>>]
    /\ parent = [v \in Views |-> Null]
    /\ parentUserData = [v \in Views |-> NoIndex]
    /\ lastFocusedView = [b \in Boxes |-> Null]
    /\ defaultFocusedIndex = [b \in Boxes |-> 0]
    /\ axis = [b \in Boxes |-> IF b % 2 = 1 THEN "ROW" ELSE "COLUMN"]
    /\ forwardedAttributes = [b \in Boxes |-> {}]
    /\ alpha = [v \in Views |-> 1]
    /\ visibility = [v \in Views |-> "VISIBLE"]
    /\ frame = [v \in Views |-> [x |-> 0, width |-> 1]]
    /\ culled = [v \in Views |-> TRUE]
    /\ detached = [v \in Views |-> FALSE]
    /\ layoutDirty = [b \in Boxes |-> FALSE]
    /\ freed = {}
    /\ status = "running"
    /\ call = NoCall

(***************************************************************************)
(* SpecSched: the render thread, the background thread and a caller thread *)
(***************************************************************************)
\* the static members of Threading and Threading::Threading(): empty queues,
\* the task loop started
InitThreading ==
    /\ m_sync_functions = <<>>
    /\ m_async_tasks = <<>>
    /\ m_delay_tasks = <<>>
    /\ m_delay_index = 0
    /\ m_delay_cancel_set = {}
    /\ task_loop_active = TRUE
    /\ mutex = [m \in Mutexes |-> "none"]
    /\ now = 0
    /\ rpc = "idle"
    /\ local = <<>>
    /\ delay_local = <<>>
    /\ duration = 0
    /\ lpc = "test"
    /\ m_tasks_copy = <<>>
    /\ nextToken = 0
    /\ executed = <<>>
    /\ escaped = <<>>
    /\ dropped = {}
    /\ cancelled = {}
    /\ cancelledInTime = {}
    /\ registered = {}
    /\ enqueued = [sync |-> <<>>, async |-> <<>>]
    /\ thisTick = {}
    /\ spc = "none"

InitSched ==
    /\ InitThreading
    /\ InitViews
    /\ focusable = [v \in Views |-> v \in Leaves]
    /\ opsLeft = 0

NextSched ==
    \/ \E body \in Bodies : \E ms \in DelaysOf(body) :
           ClientSync(body, ms) /\ UNCHANGED <<boxVars, opsLeft>>
    \/ \E body \in Bodies : \E ms \in DelaysOf(body) :
           ClientAsync(body, ms) /\ UNCHANGED <<boxVars, opsLeft>>
    \/ \E milliseconds \in 0..MaxDelay, body \in Bodies : \E ms \in DelaysOf(body) :
           ClientDelay(milliseconds, body, ms) /\ UNCHANGED <<boxVars, opsLeft>>
    \/ \E iter \in 1..MaxTasks :
           ClientCancelDelay(iter) /\ UNCHANGED <<boxVars, opsLeft>>
    \/ Stop /\ UNCHANGED <<boxVars, opsLeft>>
    \/ StopJoin /\ UNCHANGED <<boxVars, opsLeft>>
    \/ Tick /\ UNCHANGED <<boxVars, opsLeft>>
    \/ LockSync /\ UNCHANGED <<boxVars, opsLeft>>
    \/ SwapSync /\ UNCHANGED <<boxVars, opsLeft>>
    \/ RunSync /\ UNCHANGED <<boxVars, opsLeft>>
    \/ LockDelay /\ UNCHANGED <<boxVars, opsLeft>>
    \/ SwapDelay /\ UNCHANGED <<boxVars, opsLeft>>
    \/ LockCheck /\ UNCHANGED <<boxVars, opsLeft>>
    \/ EndTick /\ UNCHANGED <<boxVars, opsLeft>>
    \/ CheckCancel /\ UNCHANGED <<boxVars, opsLeft>>
    \/ ReadTime /\ UNCHANGED <<boxVars, opsLeft>>
    \/ RunDelayed /\ UNCHANGED <<boxVars, opsLeft>>
    \/ LockErase /\ UNCHANGED <<boxVars, opsLeft>>
    \/ EraseCancel /\ UNCHANGED <<boxVars, opsLeft>>
    \/ LockPush /\ UNCHANGED <<boxVars, opsLeft>>
    \/ PushBack /\ UNCHANGED <<boxVars, opsLeft>>
    \/ LoopLock /\ UNCHANGED <<boxVars, opsLeft>>
    \/ LoopExit /\ UNCHANGED <<boxVars, opsLeft>>
    \/ LoopSwap /\ UNCHANGED <<boxVars, opsLeft>>
    \/ LoopRun /\ UNCHANGED <<boxVars, opsLeft>>
    \/ LoopSleep /\ UNCHANGED <<boxVars, opsLeft>>

SpecSched == InitSched /\ [][NextSched]_vars

(***************************************************************************)
(* Box::forwardXMLAttribute and Box::applyXMLAttribute                     *)
(***************************************************************************)
AttributeNames == {"title", "axis"}
AttributeValues == {"row", "column"}

\* View::isXMLAttributeValid: the attributes a view knows
IsXMLAttributeValid(view, name) ==
    IF view \in Boxes THEN name = "axis" ELSE name = "title"

\* forwardedAttributes.count(name) > 0
IsForwarded(box, name) == \E e \in forwardedAttributes[box] : e.name = name

\* forwardedAttributes[name]
ForwardedTo(box, name) == CHOOSE e \in forwardedAttributes[box] : e.name = name

\* the (Box, name) pairs a chain of redirections can go through
MaxHops == NumBoxes * Cardinality(AttributeNames)

\* forwardXMLAttribute without the test of a second forwarding of the name
ForwardRejected_NoDuplicateTest(box, attributeName, target, targetAttributeName) ==
    ~IsXMLAttributeValid(target, targetAttributeName)

\* the two tests of forwardXMLAttribute that end in fatal()
ForwardRejected(box, attributeName, target, targetAttributeName) ==
    \/ ~IsXMLAttributeValid(target, targetAttributeName)
    \/ IsForwarded(box, attributeName)

\* Box::forwardXMLAttribute(attributeName, target, targetAttributeName)
ForwardXMLAttribute(box, attributeName, target, targetAttributeName) ==
    /\ status = "running"
    /\ box \in Boxes \ freed
    /\ target \in Views \ freed
    /\ IF ForwardRejected(box, attributeName, target, targetAttributeName)
       THEN /\ status' = "fatal"
            /\ call' = [NoCall EXCEPT !.op = "forwardXMLAttribute", !.box = box,
                          !.view = target,
                          !.events = <<<<attributeName, targetAttributeName>>,
                                       <<"fatal", box>>>>]
            /\ UNCHANGED forwardedAttributes
       ELSE /\ forwardedAttributes' = [forwardedAttributes EXCEPT ![box] =
                   @ \cup {[name |-> attributeName,
                            targetName |-> targetAttributeName,
                            target |-> target]}]
            /\ call' = [NoCall EXCEPT !.op = "forwardXMLAttribute", !.box = box,
                          !.view = target,
                          !.events = <<<<attributeName, targetAttributeName>>>>]
            /\ UNCHANGED status
    /\ UNCHANGED <<children, ygChildren, parent, parentUserData, lastFocusedView,
                   defaultFocusedIndex, axis, alpha, visibility, frame, culled, focusable,
                   detached, layoutDirty, freed>>

\* Box::forwardXMLAttribute(attributeName, target)
ForwardXMLAttributeSameName(box, attributeName, target) ==
    ForwardXMLAttribute(box, attributeName, target, attributeName)

RECURSIVE ApplyXMLAttributeCalls(_, _, _, _)
\* the calls one applyXMLAttribute makes: the redirections, then the view
\* that handles the attribute itself and whether it knows it
ApplyXMLAttributeCalls(view, name, value, fuel) ==
    IF view \in Boxes /\ IsForwarded(view, name)
    THEN IF fuel = 0
         THEN <<<<"stack overflow">>>>
         ELSE <<<<"Box::applyXMLAttribute", view, name, value>>>>
              \o ApplyXMLAttributeCalls(ForwardedTo(view, name).target,
                                        ForwardedTo(view, name).targetName,
                                        value, fuel - 1)
    ELSE <<<<"View::applyXMLAttribute", view, name, value,
             IsXMLAttributeValid(view, name)>>>>

\* Box::applyXMLAttribute(name, value)
ApplyXMLAttribute(box, name, value) ==
    /\ status = "running"
    /\ box \in Boxes \ freed
    /\ LET calls == ApplyXMLAttributeCalls(box, name, value, MaxHops)
       IN  /\ call' = [NoCall EXCEPT !.op = "applyXMLAttribute", !.box = box,
                                     !.events = calls]
           /\ status' = IF calls[Len(calls)] = <<"stack overflow">>
                        THEN "ub" ELSE status
    /\ UNCHANGED <<children, ygChildren, parent, parentUserData, lastFocusedView,
                   defaultFocusedIndex, axis, forwardedAttributes, alpha, visibility,
                   frame, culled, focusable, detached, layoutDirty, freed>>

(***************************************************************************)
(* SpecXML: forwardings registered and attributes applied                  *)
(***************************************************************************)
InitXML ==
    /\ InitViews
    /\ InitThreading
    /\ focusable = [v \in Views |-> v \in Leaves]
    /\ opsLeft = 0

NextXML ==
    \/ \E box \in Boxes, attributeName \in AttributeNames, target \in Views,
          targetAttributeName \in AttributeNames :
           ForwardXMLAttribute(box, attributeName, target, targetAttributeName)
              /\ UNCHANGED <<opsLeft, schedVars>>
    \/ \E box \in Boxes, attributeName \in AttributeNames, target \in Views :
           ForwardXMLAttributeSameName(box, attributeName, target)
              /\ UNCHANGED <<opsLeft, schedVars>>
    \/ \E box \in Boxes, name \in AttributeNames, value \in AttributeValues :
           ApplyXMLAttribute(box, name, value) /\ UNCHANGED <<opsLeft, schedVars>>

SpecXML == InitXML /\ [][NextXML]_vars

(***************************************************************************)
(* Box::hitTest(Point point)                                               *)
(***************************************************************************)
Visibilities == {"VISIBLE", "INVISIBLE", "GONE"}
Frames == {[x |-> 0, width |-> 1], [x |-> 0, width |-> 2]}
Points == 0..1

\* Rect::pointInside, along one axis
PointInside(rect, point) == point >= rect.x /\ point < rect.x + rect.width

\* View::hitTest of a view that is no Box: the view when it can be touched
\* and the point is in its frame
ViewHitTest(view, point) ==
    IF alpha[view] = 0 \/ visibility[view] # "VISIBLE"
    THEN Null
    ELSE IF PointInside(frame[view], point) THEN view ELSE Null

\* the loop over the children taken from the first one
LastHit_FirstChild(results) ==
    LET hits == {i \in 1..Len(results) : results[i] # Null}
    IN  IF hits = {} THEN Null
        ELSE results[CHOOSE i \in hits : \A j \in hits : i <= j]

\* the loop from children.rbegin() to children.rend(): the first result
\* that is not null, or null
LastHit(results) ==
    LET hits == {i \in 1..Len(results) : results[i] # Null}
    IN  IF hits = {} THEN Null
        ELSE results[CHOOSE i \in hits : \A j \in hits : j <= i]

RECURSIVE HitTest(_, _)
HitTest(view, point) ==
    IF view \notin Boxes
    THEN ViewHitTest(view, point)
    ELSE IF alpha[view] = 0 \/ visibility[view] # "VISIBLE"
    THEN Null
    ELSE IF PointInside(frame[view], point)
    THEN LET result == LastHit([i \in 1..Len(children[view]) |->
                                   HitTest(children[view][i], point)])
         IN  IF result # Null THEN result ELSE view
    ELSE Null

HitTestCall(box, point) ==
    /\ status = "running"
    /\ box \in Boxes \ freed
    /\ call' = [NoCall EXCEPT !.op = "hitTest", !.box = box, !.pos = point,
                              !.ret = HitTest(box, point)]
    /\ UNCHANGED <<children, ygChildren, parent, parentUserData, lastFocusedView,
                   defaultFocusedIndex, axis, forwardedAttributes, alpha, visibility,
                   frame, culled, focusable, detached, layoutDirty, freed, status>>

(***************************************************************************)
(* SpecHit: hitTest on the trees that addView can build, with every alpha, *)
(* visibility and frame of the bounded sets                                *)
(***************************************************************************)
\* the sequences without repetition over a set of views
Arrangements(S) ==
    {s \in UNION {[1..n -> S] : n \in 0..Cardinality(S)} :
        \A i, j \in 1..Len(s) : s[i] = s[j] => i = j}

InitHit ==
    /\ InitThreading
    /\ \E inner \in Arrangements(Leaves) :
       \E outer \in Arrangements((Views \ {1}) \ Range(inner)) :
           /\ children = [b \in Boxes |->
                  IF b = 1 THEN outer ELSE IF b = 2 THEN inner ELSE <<>>]
           /\ ygChildren = children
           /\ parent = [v \in Views |->
                  IF v \in Range(outer) THEN 1
                  ELSE IF v \in Range(inner) THEN 2 ELSE Null]
           /\ parentUserData = [v \in Views |->
                  IF v \in Range(outer) THEN FindIndex(outer, v)
                  ELSE IF v \in Range(inner) THEN FindIndex(inner, v) ELSE NoIndex]
    /\ lastFocusedView = [b \in Boxes |-> Null]
    /\ defaultFocusedIndex = [b \in Boxes |-> 0]
    /\ axis = [b \in Boxes |-> IF b % 2 = 1 THEN "ROW" ELSE "COLUMN"]
    /\ forwardedAttributes = [b \in Boxes |-> {}]
    /\ alpha \in [Views -> {0, 1}]
    /\ visibility \in {f \in [Views -> Visibilities] :
                          \A v \in Leaves : f[v] = "VISIBLE"}
    /\ frame \in [Views -> Frames]
    /\ culled = [v \in Views |-> TRUE]
    /\ detached = [v \in Views |-> FALSE]
    /\ layoutDirty = [b \in Boxes |-> FALSE]
    /\ freed = {}
    /\ status = "running"
    /\ call = NoCall
    /\ focusable = [v \in Views |-> v \in Leaves]
    /\ opsLeft = 0

NextHit ==
    \E box \in Boxes, point \in Points :
        HitTestCall(box, point) /\ UNCHANGED <<opsLeft, schedVars>>

SpecHit == InitHit /\ [][NextHit]_vars

(***************************************************************************)
(* The computed layout of a Box along the horizontal axis                  *)
(***************************************************************************)
\* YogaConstants.UNDEFINED: no width was set on the node
YGUndefined == -1

LayoutDirections == {"LTR", "RTL"}
ChildWidths == {10, 20}
RootWidths == {YGUndefined, 100}
MaxChildren == 3

\* getYGFlexDirection with the two cases exchanged
GetYGFlexDirection_Exchanged(a) ==
    IF a = "COLUMN" THEN "YGFlexDirectionRow" ELSE "YGFlexDirectionColumn"

\* getYGFlexDirection(Axis axis): ROW, and every other value but COLUMN,
\* gives YGFlexDirectionRow
GetYGFlexDirection(a) ==
    IF a = "COLUMN" THEN "YGFlexDirectionColumn" ELSE "YGFlexDirectionRow"

RECURSIVE SumOf(_)
SumOf(widths) == IF widths = <<>> THEN 0 ELSE Head(widths) + SumOf(Tail(widths))

\* the width the layout gives the root: its own, or the one its content
\* needs along the main axis
LayoutWidth(flexDirection, rootWidth, widths) ==
    IF rootWidth # YGUndefined
    THEN rootWidth
    ELSE IF flexDirection = "YGFlexDirectionRow"
    THEN SumOf(widths)
    ELSE IF widths = <<>> THEN 0
    ELSE CHOOSE w \in Range(widths) : \A other \in Range(widths) : other <= w

\* YGNodeCalculateLayout for children of fixed width, justify-content
\* flex-start, no padding and no margin: the x of every child
LayoutX(flexDirection, direction, rootWidth, widths) ==
    LET W == LayoutWidth(flexDirection, rootWidth, widths)
    IN  [i \in 1..Len(widths) |->
            IF flexDirection = "YGFlexDirectionRow"
            THEN IF direction = "LTR"
                 THEN SumOf(SubSeq(widths, 1, i - 1))
                 ELSE W - SumOf(SubSeq(widths, 1, i))
            ELSE IF direction = "LTR" THEN 0 ELSE W - widths[i]]

\* test_flex_direction_row: the widths set and the x asserted
test_flex_direction_row ==
    [rootWidth |-> 100, widths |-> <<10, 10, 10>>,
     LTR |-> <<0, 10, 20>>, RTL |-> <<90, 80, 70>>]

\* test_flex_direction_row_no_width: the widths set and the x asserted
test_flex_direction_row_no_width ==
    [rootWidth |-> YGUndefined, widths |-> <<10, 10, 10>>,
     LTR |-> <<0, 10, 20>>, RTL |-> <<20, 10, 0>>]

\* the layout of a Box whose children have the given widths; the Box gave
\* its layout node the flex direction of its axis when it was constructed
CalculateLayout(box, direction, rootWidth, widths) ==
    /\ status = "running"
    /\ box \in Boxes \ freed
    /\ call' = [NoCall EXCEPT !.op = "calculateLayout", !.box = box,
                   !.dir = direction, !.pos = rootWidth,
                   !.events = <<widths,
                                LayoutX(GetYGFlexDirection(axis[box]), direction,
                                        rootWidth, widths)>>]
    /\ UNCHANGED <<children, ygChildren, parent, parentUserData, lastFocusedView,
                   defaultFocusedIndex, axis, forwardedAttributes, alpha, visibility,
                   frame, culled, focusable, detached, layoutDirty, freed, status>>

(***************************************************************************)
(* SpecYoga: layouts of Boxes of both axes in both directions              *)
(***************************************************************************)
NextYoga ==
    \E box \in Boxes, direction \in LayoutDirections, rootWidth \in RootWidths :
        \E n \in 0..MaxChildren : \E widths \in [1..n -> ChildWidths] :
            CalculateLayout(box, direction, rootWidth, widths)
               /\ UNCHANGED <<opsLeft, schedVars>>

SpecYoga == InitXML /\ [][NextYoga]_vars

(***************************************************************************)
(* SpecLayout: at most MaxOps child-management calls on Boxes whose views  *)
(* may have been detached before they are added                            *)
(***************************************************************************)
InitLayout ==
    /\ InitThreading
    /\ children = [b \in Boxes |-> <<>>]
    /\ ygChildren = [b \in Boxes |-> <<>>]
    /\ parent = [v \in Views |-> Null]
    /\ parentUserData = [v \in Views |-> NoIndex]
    /\ lastFocusedView = [b \in Boxes |-> Null]
    /\ defaultFocusedIndex = [b \in Boxes |-> 0]
    /\ axis = [b \in Boxes |-> IF b % 2 = 1 THEN "ROW" ELSE "COLUMN"]
    /\ forwardedAttributes = [b \in Boxes |-> {}]
    /\ alpha = [v \in Views |-> 1]
    /\ visibility = [v \in Views |-> "VISIBLE"]
    /\ frame = [v \in Views |-> [x |-> 0, width |-> 1]]
    /\ culled = [v \in Views |-> TRUE]
    /\ detached \in [Views -> BOOLEAN]
    /\ layoutDirty = [b \in Boxes |-> FALSE]
    /\ freed = {}
    /\ status = "running"
    /\ call = NoCall
    /\ focusable = [v \in Views |-> v \in Leaves]
    /\ opsLeft = MaxOps

NextLayout ==
    \/ \E box \in Boxes : \E view \in Views, position \in 0..Len(children[box]) :
           AddView(box, view, position) /\ opsLeft > 0 /\ opsLeft' = opsLeft - 1
              /\ UNCHANGED schedVars
    \/ \E box \in Boxes, view \in Views :
           AddViewLast(box, view) /\ opsLeft > 0 /\ opsLeft' = opsLeft - 1
              /\ UNCHANGED schedVars
    \/ \E box \in Boxes : \E view \in Range(children[box]), free \in BOOLEAN :
           RemoveView(box, view, free) /\ opsLeft > 0 /\ opsLeft' = opsLeft - 1
              /\ UNCHANGED schedVars
    \/ \E box \in Boxes, free \in BOOLEAN :
           ClearViews(box, free) /\ opsLeft > 0 /\ opsLeft' = opsLeft - 1
              /\ UNCHANGED schedVars

SpecLayout == InitLayout /\ [][NextLayout]_vars

(***************************************************************************)
(* SpecClear: at most MaxOps calls of addView, of clearViews and focus     *)
(* changes, on Boxes whose views may have been detached before             *)
(***************************************************************************)
NextClear ==
    \/ \E box \in Boxes : \E view \in Views, position \in 0..Len(children[box]) :
           AddView(box, view, position) /\ opsLeft > 0 /\ opsLeft' = opsLeft - 1
              /\ UNCHANGED schedVars
    \/ \E view \in Views :
           FocusGained(view) /\ opsLeft > 0 /\ opsLeft' = opsLeft - 1
              /\ UNCHANGED schedVars
    \/ \E box \in Boxes, free \in BOOLEAN :
           ClearViews(box, free) /\ opsLeft > 0 /\ opsLeft' = opsLeft - 1
              /\ UNCHANGED schedVars

SpecClear == InitLayout /\ [][NextClear]_vars

(***************************************************************************)
(* SpecAsync: callers of async() and stop() and the background thread,     *)
(* which is scheduled again and again                                      *)
(***************************************************************************)
\* one step of Threading::task_loop
LoopStep ==
    \/ LoopLock
    \/ LoopExit
    \/ LoopSwap
    \/ LoopRun
    \/ LoopSleep

NextAsync ==
    \/ \E body \in Bodies : \E ms \in DelaysOf(body) :
           ClientAsync(body, ms) /\ UNCHANGED <<boxVars, opsLeft>>
    \/ Stop /\ UNCHANGED <<boxVars, opsLeft>>
    \/ StopJoin /\ UNCHANGED <<boxVars, opsLeft>>
    \/ LoopLock /\ UNCHANGED <<boxVars, opsLeft>>
    \/ LoopExit /\ UNCHANGED <<boxVars, opsLeft>>
    \/ LoopSwap /\ UNCHANGED <<boxVars, opsLeft>>
    \/ LoopRun /\ UNCHANGED <<boxVars, opsLeft>>
    \/ LoopSleep /\ UNCHANGED <<boxVars, opsLeft>>

SpecAsync ==
    /\ InitSched
    /\ [][NextAsync]_vars
    /\ WF_vars(LoopStep /\ UNCHANGED <<boxVars, opsLeft>>)

(***************************************************************************)
(* SpecBox: every sequence of child-management calls on the Boxes          *)
(***************************************************************************)
InitBox ==
    /\ InitViews
    /\ InitThreading
    /\ focusable = [v \in Views |-> v \in Leaves]
    /\ opsLeft = 0

NextBox ==
    \/ \E box \in Boxes, view \in Views, position \in 0..(NumViews - 1) :
           AddView(box, view, position) /\ UNCHANGED opsLeft /\ UNCHANGED schedVars
    \/ \E box \in Boxes, view \in Views :
           AddViewLast(box, view) /\ UNCHANGED opsLeft /\ UNCHANGED schedVars
    \/ \E box \in Boxes, view \in Views \cup {Null}, free \in BOOLEAN :
           RemoveView(box, view, free) /\ UNCHANGED opsLeft /\ UNCHANGED schedVars
    \/ \E box \in Boxes, free \in BOOLEAN :
           ClearViews(box, free) /\ UNCHANGED opsLeft /\ UNCHANGED schedVars

SpecBox == InitBox /\ [][NextBox]_vars

(***************************************************************************)
(* SpecFocus: at most MaxOps calls that change the tree or the focus, and  *)
(* focus queries in every state they reach                                 *)
(***************************************************************************)
InitFocus ==
    /\ InitViews
    /\ InitThreading
    /\ focusable \in {f \in [Views -> BOOLEAN] : \A b \in Boxes : ~f[b]}
    /\ opsLeft = MaxOps

\* one more call that changes the tree or the focus
Spend == opsLeft > 0 /\ opsLeft' = opsLeft - 1

NextFocus ==
    \/ \E box \in Boxes : \E view \in Views, position \in 0..Len(children[box]) :
           AddView(box, view, position) /\ Spend /\ UNCHANGED schedVars
    \/ \E box \in Boxes : \E view \in Range(children[box]), free \in BOOLEAN :
           RemoveView(box, view, free) /\ Spend /\ UNCHANGED schedVars
    \/ \E box \in Boxes, free \in BOOLEAN :
           ClearViews(box, free) /\ Spend /\ UNCHANGED schedVars
    \/ \E view \in Views :
           FocusGained(view) /\ Spend /\ UNCHANGED schedVars
    \/ \E box \in Boxes :
           GetDefaultFocusCall(box) /\ UNCHANGED opsLeft /\ UNCHANGED schedVars
    \/ \E box \in Boxes, direction \in Directions, currentView \in Views :
           GetNextFocusCall(box, direction, currentView) /\ UNCHANGED opsLeft /\ UNCHANGED schedVars

SpecFocus == InitFocus /\ [][NextFocus]_vars

(***************************************************************************)
(* SpecNav: at most MaxOps calls of addView and removeView, and            *)
(* getNextFocus queries in every state they reach                          *)
(***************************************************************************)
NextNav ==
    \/ \E box \in Boxes : \E view \in Views, position \in 0..Len(children[box]) :
           AddView(box, view, position) /\ Spend /\ UNCHANGED schedVars
    \/ \E box \in Boxes : \E view \in Range(children[box]), free \in BOOLEAN :
           RemoveView(box, view, free) /\ Spend /\ UNCHANGED schedVars
    \/ \E box \in Boxes, direction \in Directions, currentView \in Views :
           GetNextFocusCall(box, direction, currentView) /\ UNCHANGED opsLeft /\ UNCHANGED schedVars

SpecNav == InitFocus /\ [][NextNav]_vars

(***************************************************************************)
(* SpecChain: at most MaxOps calls of addView and removeView, and focus    *)
(* gained and lost by the views of the trees they build                    *)
(***************************************************************************)
NextChain ==
    \/ \E box \in Boxes : \E view \in Views, position \in 0..Len(children[box]) :
           AddView(box, view, position) /\ Spend /\ UNCHANGED schedVars
    \/ \E box \in Boxes : \E view \in Range(children[box]), free \in BOOLEAN :
           RemoveView(box, view, free) /\ Spend /\ UNCHANGED schedVars
    \/ \E view \in Views :
           FocusGained(view) /\ Spend /\ UNCHANGED schedVars
    \/ \E view \in Views :
           FocusLost(view) /\ UNCHANGED opsLeft /\ UNCHANGED schedVars

SpecChain == InitFocus /\ [][NextChain]_vars

(***************************************************************************)
(* Box::getCullingBounds and Box::draw                                     *)
(***************************************************************************)
MaxCoord == 3

\* the rectangles views are given: two that share an edge, one below them
\* and one to the right of them
DrawFrames ==
    {[x |-> 0, y |-> 0, width |-> 1, height |-> 1],
     [x |-> 1, y |-> 0, width |-> 1, height |-> 1],
     [x |-> 0, y |-> 2, width |-> 1, height |-> 1],
     [x |-> 2, y |-> 0, width |-> 1, height |-> 1]}

\* top = getY(); left = getX(); right = left + getWidth(); bottom = top + getHeight()
GetCullingBounds(view) ==
    [top |-> frame[view].y,
     left |-> frame[view].x,
     right |-> frame[view].x + frame[view].width,
     bottom |-> frame[view].y + frame[view].height]

\* a test that also rejects a child that only touches the bounds
OutOfBounds_Exclusive(child, bounds) ==
    \/ child.bottom <= bounds.top
    \/ child.right <= bounds.left
    \/ child.left >= bounds.right
    \/ child.top >= bounds.bottom

\* childBottom < top || childRight < left || childLeft > right || childTop > bottom
OutOfBounds(child, bounds) ==
    \/ child.bottom < bounds.top
    \/ child.right < bounds.left
    \/ child.left > bounds.right
    \/ child.top > bounds.bottom

RECURSIVE InBoundsOfAll(_, _, _)
\* for (Box* bounds = this; bounds != nullptr; bounds = bounds->getParent())
InBoundsOfAll(child, bounds, fuel) ==
    IF bounds = Null \/ fuel = 0 THEN TRUE
    ELSE IF OutOfBounds(GetCullingBounds(child), GetCullingBounds(bounds)) THEN FALSE
    ELSE InBoundsOfAll(child, parent[bounds], fuel - 1)

\* whether the loop of draw reaches child->frame(ctx) for this child
Drawn(box, child) ==
    IF child \notin Boxes /\ culled[child]
    THEN InBoundsOfAll(child, box, NumViews)
    ELSE TRUE

\* Box::draw: the children whose frame(ctx) is called, in the order of the loop
Draw(box) ==
    /\ status = "running"
    /\ box \in Boxes \ freed
    /\ IF ParentChainBroken(box, NumViews)
       THEN /\ status' = "ub"
            /\ call' = [NoCall EXCEPT !.op = "draw", !.box = box, !.ret = UB]
       ELSE /\ LET drawn == SelectSeq(children[box], LAMBDA child : Drawn(box, child))
               IN  call' = [NoCall EXCEPT !.op = "draw", !.box = box,
                               !.events = [i \in 1..Len(drawn) |-> <<"frame", drawn[i]>>]]
            /\ UNCHANGED status
    /\ UNCHANGED <<children, ygChildren, parent, parentUserData, lastFocusedView,
                   defaultFocusedIndex, axis, forwardedAttributes, alpha, visibility,
                   frame, culled, focusable, detached, layoutDirty, freed>>

(***************************************************************************)
(* SpecDraw: draw on the trees that addView can build, with every          *)
(* rectangle of the bounded set, and after one removeView                  *)
(***************************************************************************)
InitDraw ==
    /\ InitThreading
    /\ \E inner \in Arrangements(Leaves) :
       \E outer \in Arrangements((Views \ {1}) \ Range(inner)) :
           /\ children = [b \in Boxes |->
                  IF b = 1 THEN outer ELSE IF b = 2 THEN inner ELSE <<>>]
           /\ ygChildren = children
           /\ parent = [v \in Views |->
                  IF v \in Range(outer) THEN 1
                  ELSE IF v \in Range(inner) THEN 2 ELSE Null]
           /\ parentUserData = [v \in Views |->
                  IF v \in Range(outer) THEN FindIndex(outer, v)
                  ELSE IF v \in Range(inner) THEN FindIndex(inner, v) ELSE NoIndex]
    /\ lastFocusedView = [b \in Boxes |-> Null]
    /\ defaultFocusedIndex = [b \in Boxes |-> 0]
    /\ axis = [b \in Boxes |-> IF b % 2 = 1 THEN "ROW" ELSE "COLUMN"]
    /\ forwardedAttributes = [b \in Boxes |-> {}]
    /\ alpha = [v \in Views |-> 1]
    /\ visibility = [v \in Views |-> "VISIBLE"]
    /\ frame \in [Views -> DrawFrames]
    /\ culled \in {f \in [Views -> BOOLEAN] : \A b \in Boxes : f[b]}
    /\ detached = [v \in Views |-> FALSE]
    /\ layoutDirty = [b \in Boxes |-> FALSE]
    /\ freed = {}
    /\ status = "running"
    /\ call = NoCall
    /\ focusable = [v \in Views |-> v \in Leaves]
    /\ opsLeft = 1

NextDraw ==
    \/ \E box \in Boxes :
           Draw(box) /\ UNCHANGED <<opsLeft, schedVars>>
    \/ \E box \in Boxes : \E view \in Range(children[box]), free \in BOOLEAN :
           RemoveView(box, view, free) /\ Spend /\ UNCHANGED schedVars

SpecDraw == InitDraw /\ [][NextDraw]_vars

(***************************************************************************)
(* Properties of Box child management (SpecBox)                            *)
(***************************************************************************)
\* every child's cached index is its position in the child sequence
IndexCacheExact ==
    \A b \in Boxes : \A i \in 1..Len(children[b]) :
        parentUserData[children[b][i]] = i - 1

\* a step changes a child sequence only by the insertion or removal it was asked for
ChildSequenceStep ==
    \A b \in Boxes :
        \/ children'[b] = children[b]
        \/ /\ call'.op = "addView" /\ call'.box = b
           /\ Len(children'[b]) = Len(children[b]) + 1
           /\ children'[b][call'.pos + 1] = call'.view
           /\ \A i \in 1..Len(children[b]) :
                  children[b][i] = children'[b][IF i <= call'.pos THEN i ELSE i + 1]
        \/ /\ call'.op = "removeView" /\ call'.box = b
           /\ children'[b] = SelectSeq(children[b], LAMBDA x : x # call'.view)
        \/ /\ call'.op = "clearViews" /\ call'.box = b
           /\ children'[b] = <<>>
        \/ /\ b \in freed'
           /\ children'[b] = <<>>

\* C1: after any sequence of addView / removeView calls the child sequence is
\* the inserted views minus the removed ones, in order, and every remaining
\* child's cached index equals its position in the child sequence.
C1_SequenceAndIndexCache == [][ChildSequenceStep /\ IndexCacheExact']_vars

\* C4: removeView with a null view or a view that is not a child of the Box
\* changes nothing: child sequence, LayoutNode child list, cached indices and
\* layout-dirty flag stay as they are, no hook runs and nothing is destroyed.
C4_RemoveAbsentIsNoOp ==
    [][(/\ call'.op = "removeView"
        /\ \/ call'.view = Null
           \/ call'.view \notin Range(children[call'.box]))
       => /\ UNCHANGED <<children, ygChildren, parent, parentUserData,
                         layoutDirty, freed, lastFocusedView>>
          /\ call'.events = <<>>]_vars

\* a removeView of a live view that is no child of a Box that has children
C4_Witness ==
    /\ call.op = "removeView"
    /\ call.view # Null
    /\ call.view \notin Range(children[call.box])
    /\ children[call.box] # <<>>
    /\ call.events = <<>>

\* C5: addView at a position above the number of children reports a fatal error
\* and inserts nothing (child sequence, LayoutNode child list, cached indices
\* and the view's parent are unchanged); every position in [0, childCount] is
\* accepted and the view is inserted there.
C5_AddViewBounds ==
    [][call'.op = "addView"
       => IF call'.pos > Len(children[call'.box])
          THEN /\ status' = "fatal"
               /\ UNCHANGED <<children, ygChildren, parent, parentUserData>>
          ELSE /\ status' = "running"
               /\ Len(children'[call'.box]) = Len(children[call'.box]) + 1
               /\ children'[call'.box][call'.pos + 1] = call'.view]_vars

\* addView(v, 3) into a Box with 2 children ended in the fatal error
C5_Witness ==
    /\ call.op = "addView"
    /\ status = "fatal"
    /\ Len(children[call.box]) = 2
    /\ call.pos > 2

\* an addView at position childCount of a Box with children was accepted
C5_WitnessAppend ==
    /\ call.op = "addView"
    /\ status = "running"
    /\ call.pos > 0
    /\ call.pos = Len(children[call.box]) - 1

(***************************************************************************)
(* Properties of focus resolution (SpecFocus)                              *)
(***************************************************************************)
\* the direction goes towards higher indices of the child sequence
Forward(b, direction) ==
    \/ axis[b] = "ROW" /\ direction = "RIGHT"
    \/ axis[b] = "COLUMN" /\ direction = "DOWN"

Backward(b, direction) ==
    \/ axis[b] = "ROW" /\ direction = "LEFT"
    \/ axis[b] = "COLUMN" /\ direction = "UP"

\* the 0-based indices the scan may visit, given the cached index it starts from
ScanRange(b, direction, cached) ==
    IF Forward(b, direction)
    THEN {i \in 0..(Len(children[b]) - 1) : i > cached}
    ELSE IF cached - 1 < Len(children[b])
    THEN {i \in 0..(Len(children[b]) - 1) : i < cached}
    ELSE {}

\* index j is visited before index i
Before(b, direction, j, i) == IF Forward(b, direction) THEN j < i ELSE j > i

\* C6: a candidate produced by the sibling scan of getNextFocus is the non-null
\* getDefaultFocus() of a child of the Box, every sibling visited before it has
\* a null getDefaultFocus(), and the scan yields null only when every sibling
\* it can visit resolves to null.
C6_ScanSkipsNullSiblings ==
    (/\ call.op = "getNextFocus"
     /\ status = "running"
     /\ Forward(call.box, call.dir) \/ Backward(call.box, call.dir))
    => LET b == call.box
           range == ScanRange(b, call.dir, parentUserData[call.view])
       IN  IF call.cand # Null
           THEN \E i \in range :
                   /\ GetDefaultFocus(children[b][i + 1], NumViews) = call.cand
                   /\ \A j \in range :
                          Before(b, call.dir, j, i)
                          => GetDefaultFocus(children[b][j + 1], NumViews) = Null
           ELSE \A i \in range :
                   GetDefaultFocus(children[b][i + 1], NumViews) = Null

\* a scan that skipped a sibling without default focus and returned the next one
C6_Witness ==
    /\ call.op = "getNextFocus"
    /\ status = "running"
    /\ call.cand # Null
    /\ \E j \in ScanRange(call.box, call.dir, parentUserData[call.view]) :
           /\ GetDefaultFocus(children[call.box][j + 1], NumViews) = Null
           /\ \E i \in ScanRange(call.box, call.dir, parentUserData[call.view]) :
                  /\ Before(call.box, call.dir, j, i)
                  /\ GetDefaultFocus(children[call.box][i + 1], NumViews) = call.cand

\* the focusable views below a Box
FocusableBelow(b) == {v \in Subtree(b, NumViews) \ {b} : focusable[v]}

\* C7: getDefaultFocus() of a non-focusable Box returns null when the Box has
\* no children, and returns the focusable view when the subtree of the Box
\* holds exactly one.
C7_DefaultFocusOfSubtree ==
    (call.op = "getDefaultFocus" /\ ~focusable[call.box])
    => /\ children[call.box] = <<>> => call.ret = Null
       /\ \A f \in Views : FocusableBelow(call.box) = {f} => call.ret = f


(***************************************************************************)
(* Properties of the task scheduler                                        *)
(***************************************************************************)
\* how many entries of the log of executed callbacks carry this token
TimesExecuted(token) == Cardinality({i \in 1..Len(executed) : executed[i].token = token})

\* how many times the operation is found in a sequence of DelayOperations
TimesIn(queue, op) == Cardinality({i \in 1..Len(queue) : queue[i] = op})

\* C2: a delayed task whose cancelDelay(id) returned before its delay
\* elapsed never has its body executed, and a cancelDelay never makes the
\* scheduler skip a delayed task other than the ones it named
C2_CancelPreventsExecution ==
    /\ \A token \in cancelledInTime : token \notin ExecutedTokens
    /\ \A d \in dropped : d.index \in cancelled

\* C3: a delayed task that is never cancelled is not executed before its
\* delay elapsed, is re-queued only when it did not elapse, and once
\* performSyncTasks has returned it is either pending exactly once and not
\* executed, or executed exactly once and no longer pending
C3_DelayedRunsOnceWhenElapsed ==
    /\ rpc = "exec" => duration >= Head(delay_local).delayMilliseconds
    /\ rpc \in {"lockPush", "push"} => duration < Head(delay_local).delayMilliseconds
    /\ rpc = "idle" =>
          \A op \in registered :
              op.index \notin cancelled =>
                  TimesExecuted(op.func.token) + TimesIn(m_delay_tasks, op) = 1

\* C8: no exception thrown by a sync or delayed callback leaves
\* performSyncTasks, and no callback is executed a second time
C8_TickContainsExceptions ==
    /\ \A i \in 1..Len(escaped) : escaped[i][1] # "render"
    /\ \A e \in Range(executed) : TimesExecuted(e.token) = 1

\* C9: no exception thrown by an async task leaves the background loop,
\* which keeps draining tasks
C9_LoopContainsExceptions ==
    /\ lpc # "terminated"
    /\ \A i \in 1..Len(escaped) : escaped[i][1] # "loop"

\* the places of performSyncTasks between a lock() and its unlock()
RenderSections ==
    [m \in Mutexes |->
        CASE m = "sync" -> {"swapSync"}
          [] m = "delay" -> {"swapDelay", "check", "erase", "push"}
          [] OTHER -> {}]

\* C10: the render thread and the background thread hold no scheduler mutex
\* while a callback body runs; a mutex is held only inside a swap, check,
\* erase or push section, which its owner leaves without waiting, so a
\* callback that calls sync, async, delay or cancelDelay always gets the lock
C10_NoLockDuringCallback ==
    /\ rpc \in {"runSync", "exec"} => \A m \in Mutexes : mutex[m] # "render"
    /\ lpc = "run" => \A m \in Mutexes : mutex[m] # "loop"
    /\ \A m \in Mutexes : mutex[m] = "render" => rpc \in RenderSections[m]
    /\ \A m \in Mutexes : mutex[m] = "loop" => m = "async" /\ lpc = "swap"

\* a delayed callback that called delay() has just run on the render thread
\* and the operation it registered is in the delayed queue
C10_Witness ==
    /\ \E e \in Range(executed) : e.by = "render" /\ e.body = "delay"
    /\ \E op \in Range(m_delay_tasks) : op.func.token \in {e.token + 1 : e \in Range(executed)}
    /\ rpc = "lockErase"

(***************************************************************************)
(* Order of execution                                                      *)
(***************************************************************************)
\* the tokens of the executed callbacks that went through the given queue,
\* in the order of their execution
ExecutedFrom(queue) ==
    LET tokens == [i \in 1..Len(executed) |-> executed[i].token]
        ThroughQueue(token) == token \in Range(enqueued[queue])
    IN  SelectSeq(tokens, ThroughQueue)

IsPrefix(a, b) == Len(a) <= Len(b) /\ SubSeq(b, 1, Len(a)) = a

\* the callbacks of `ran` come in the order they have in `log`
PlaceIn(log, token) == CHOOSE i \in 1..Len(log) : log[i] = token

SameOrder(ran, log) ==
    \A i, j \in 1..Len(ran) :
        i < j => PlaceIn(log, ran[i]) < PlaceIn(log, ran[j])

RenderEscaped == \E i \in 1..Len(escaped) : escaped[i][1] = "render"

\* C11: sync callbacks are executed in the order sync() enqueued them, within
\* a tick and across ticks; as long as no exception left performSyncTasks the
\* executed callbacks are exactly the first ones enqueued
C11_SyncOrder ==
    /\ SameOrder(ExecutedFrom("sync"), enqueued.sync)
    /\ ~RenderEscaped => IsPrefix(ExecutedFrom("sync"), enqueued.sync)

\* two sync callbacks have run, the second one enqueued by the first and so
\* executed in a later tick
C11_Witness ==
    /\ Len(ExecutedFrom("sync")) = 2
    /\ executed[1].body = "sync"
    /\ executed[2].token = executed[1].token + 1

\* how many callbacks of the queue carry this token
TimesQueued(queue, token) == Cardinality({i \in 1..Len(queue) : queue[i].token = token})

\* the background thread has neither been told to stop nor ended
LoopKeepsRunning == task_loop_active /\ lpc \notin {"done", "terminated"}

\* an async task is in the queue, in the copy being drained or executed,
\* and in one of them only; tasks run in the order of their async() calls
AsyncOnceInOrder ==
    /\ lpc # "terminated" =>
          \A token \in Range(enqueued.async) :
              TimesQueued(m_async_tasks, token) + TimesQueued(m_tasks_copy, token)
                  + TimesExecuted(token) = 1
    /\ IsPrefix(ExecutedFrom("async"), enqueued.async)

\* C12: while the background loop keeps running every task passed to async()
\* is eventually executed; no task is lost or duplicated by the swap of the
\* queue, and tasks are executed once, in the order they were enqueued
C12_AsyncEventuallyOnce ==
    /\ []AsyncOnceInOrder
    /\ \A token \in 1..MaxTasks :
           (token \in Range(enqueued.async)) ~>
               (token \in ExecutedTokens \/ ~LoopKeepsRunning)

\* a task enqueued while the loop was draining an earlier pass has been
\* executed in a later pass
C12_Witness ==
    /\ Len(ExecutedFrom("async")) = 2
    /\ executed[1].body = "async"
    /\ lpc = "run"
    /\ LoopKeepsRunning

\* return m_delay_index: the value a call of delay() hands back
DelayReturned == m_delay_index'

\* a call of delay(): the operation it queued carries the identifier it
\* returns, which is above the identifier of every operation queued before
DelayStep ==
    \A op \in registered' \ registered :
        /\ op.index = DelayReturned
        /\ op \in Range(m_delay_tasks')
        /\ \A earlier \in registered : op.index > earlier.index

\* C13: every delay() returns an identifier strictly greater than all the
\* identifiers returned before, whichever thread calls it, so no two delayed
\* tasks share an identifier, and the identifier is the one of the task queued
C13_DelayIdentifiers ==
    [][/\ DelayStep
       /\ \A a, b \in registered' : a.index = b.index => a = b]_vars

\* delay() was called by a caller thread and by a callback of the render
\* thread
C13_Witness ==
    /\ Cardinality(registered) = 2
    /\ \E e \in Range(executed) : e.body = "delay" /\ e.by = "render"

\* C14: once the loop has seen the stop signal it starts no drain pass and
\* runs no task any more; after stop() was called the loop thread ends, and
\* stop() returns only when the loop thread has ended
C14_StopJoinsLoop ==
    /\ [](spc = "returned" => lpc = "done")
    /\ [][lpc = "done" => lpc' = "done" /\ executed' = executed
                             /\ m_tasks_copy' = m_tasks_copy]_vars
    /\ (spc = "join") ~> (lpc \in {"done", "terminated"})

\* stop() has returned after the loop had executed tasks
C14_Witness ==
    /\ spc = "returned"
    /\ \E e \in Range(executed) : e.by = "loop"
    /\ m_async_tasks # <<>>

(***************************************************************************)
(* Properties of the Box with detached views                               *)
(***************************************************************************)
\* the child sequence of the Box without its detached views
AttachedChildren(box) == SelectSeq(children[box], LAMBDA v : ~detached[v])

\* C15: after every addView, removeView and clearViews, also on Boxes that
\* hold detached children, the child list of the Box's layout node is the
\* child sequence of the Box restricted to its non-detached views, in the
\* same order
C15_LayoutMirrorsChildren ==
    \A box \in Boxes \ freed : ygChildren[box] = AttachedChildren(box)

\* C16: the view a Box remembers as last focused is null or a view still
\* attached below that Box; removeView of the remembered view clears it
C16_LastFocusedStillAttached ==
    \A box \in Boxes \ freed :
        \/ lastFocusedView[box] = Null
        \/ /\ lastFocusedView[box] \notin freed
           /\ lastFocusedView[box] \in Subtree(box, NumViews) \ {box}

(***************************************************************************)
(* Properties of attribute forwarding                                      *)
(***************************************************************************)
\* a call of forwardXMLAttribute is fatal and leaves the table as it was
\* when the target does not know targetName or the name is forwarded
\* already, and adds name -> (targetName, target) otherwise
ForwardStep ==
    call'.op = "forwardXMLAttribute" =>
        LET box == call'.box
            name == call'.events[1][1]
            targetName == call'.events[1][2]
        IN  IF \/ ~IsXMLAttributeValid(call'.view, targetName)
               \/ \E e \in forwardedAttributes[box] : e.name = name
            THEN /\ status' = "fatal"
                 /\ forwardedAttributes' = forwardedAttributes
            ELSE /\ status' = "running"
                 /\ forwardedAttributes' = [forwardedAttributes EXCEPT ![box] =
                        @ \cup {[name |-> name, targetName |-> targetName,
                                 target |-> call'.view]}]

\* a call of applyXMLAttribute with a forwarded name goes to the target with
\* the target's name and the same value, and the Box does not handle the
\* name itself; with any other name the Box handles it
ApplyStep ==
    call'.op = "applyXMLAttribute" =>
        LET box == call'.box
            name == call'.events[1][3]
            value == call'.events[1][4]
            entries == {e \in forwardedAttributes[box] : e.name = name}
        IN  IF entries = {}
            THEN /\ Len(call'.events) = 1
                 /\ call'.events[1][1] = "View::applyXMLAttribute"
                 /\ call'.events[1][2] = box
            ELSE /\ call'.events[1] = <<"Box::applyXMLAttribute", box, name, value>>
                 /\ \A e \in entries :
                        /\ call'.events[2][2] = e.target
                        /\ call'.events[2][3] = e.targetName
                        /\ call'.events[2][4] = value

\* C17: forwardXMLAttribute is fatal at registration, with the forwarding
\* table unchanged, when targetName is no valid attribute of the target or
\* the name is forwarded already; otherwise it registers the entry, and
\* applyXMLAttribute of that name is redirected to the target
C17_ForwardingRegistration == [][ForwardStep /\ ApplyStep]_vars

\* an attribute forwarded to a view under another name was applied and
\* handled by that view
C17_Witness ==
    /\ call.op = "applyXMLAttribute"
    /\ Len(call.events) = 2
    /\ call.events[2][1] = "View::applyXMLAttribute"
    /\ call.events[2][3] # call.events[1][3]
    /\ call.events[2][5]

(***************************************************************************)
(* Properties of hitTest                                                   *)
(***************************************************************************)
\* the places in the child sequence of the Box whose hitTest is not null
ChildrenHit(box, point) ==
    {i \in 1..Len(children[box]) : HitTest(children[box][i], point) # Null}

\* C18: hitTest is null when the Box's alpha is 0 or the Box is not VISIBLE,
\* and null when the point is outside its frame; otherwise it is the result
\* of the last child in sequence order whose hitTest is not null, and the
\* Box itself when no child is hit
C18_HitTest ==
    call.op = "hitTest" =>
        LET box == call.box
            point == call.pos
            hits == ChildrenHit(box, point)
        IN  IF alpha[box] = 0 \/ visibility[box] # "VISIBLE"
            THEN call.ret = Null
            ELSE IF ~PointInside(frame[box], point)
            THEN call.ret = Null
            ELSE IF hits = {}
            THEN call.ret = box
            ELSE \E i \in hits :
                    /\ \A j \in hits : j <= i
                    /\ call.ret = HitTest(children[box][i], point)

\* two children of the Box are hit and the result is the one of the later
\* child, a view nested in a child Box
C18_Witness ==
    /\ call.op = "hitTest"
    /\ Cardinality(ChildrenHit(call.box, call.pos)) >= 2
    /\ call.ret \notin Range(children[call.box])
    /\ call.ret \notin {Null, call.box}

(***************************************************************************)
(* Properties of the computed layout                                       *)
(***************************************************************************)
\* the layout agrees with what the tests of the layout engine assert
AgreesWithTest(test) ==
    (call.pos = test.rootWidth /\ call.events[1] = test.widths) =>
        call.events[2] = test[call.dir]

\* C19: in a ROW Box with default justification and children of fixed
\* width, under LTR the first child is at x = 0 and every child starts where
\* the child before it ends; under RTL the first child ends at the right
\* edge of the Box and every child ends where the child before it starts
C19_RowLayoutContiguous ==
    (call.op = "calculateLayout" /\ axis[call.box] = "ROW") =>
        LET widths == call.events[1]
            x == call.events[2]
            right == IF call.pos = YGUndefined THEN SumOf(widths) ELSE call.pos
        IN  /\ Len(x) = Len(widths)
            /\ AgreesWithTest(test_flex_direction_row)
            /\ AgreesWithTest(test_flex_direction_row_no_width)
            /\ IF call.dir = "LTR"
               THEN /\ Len(x) > 0 => x[1] = 0
                    /\ \A i \in 1..(Len(x) - 1) : x[i + 1] = x[i] + widths[i]
               ELSE /\ Len(x) > 0 => x[1] + widths[1] = right
                    /\ \A i \in 1..(Len(x) - 1) : x[i + 1] + widths[i + 1] = x[i]

\* a ROW Box of width 100 with three children of different widths was laid
\* out from right to left
C19_Witness ==
    /\ call.op = "calculateLayout"
    /\ axis[call.box] = "ROW"
    /\ call.dir = "RTL"
    /\ call.pos = 100
    /\ call.events[1] = <<10, 20, 10>>
    /\ call.events[2] = <<90, 70, 60>>

(***************************************************************************)
(* Order of the two swaps of performSyncTasks                              *)
(***************************************************************************)
\* C20: the delayed queue is swapped out before any sync callback of the
\* tick runs, so a delayed task that a sync callback registers during a tick
\* is not among the operations this tick examines: it is neither executed
\* nor dropped as cancelled before the following tick
C20_DelayFromSyncWaitsForNextTick ==
    /\ \A op \in Range(delay_local) : op.index \notin thisTick
    /\ rpc # "idle" =>
          \A op \in dropped : op.index \notin thisTick

(***************************************************************************)
(* The fallback chain of getDefaultFocus                                   *)
(***************************************************************************)
\* what the children of a Box resolve to, in sequence order
ChildResolutions(b) ==
    [i \in 1..Len(children[b]) |-> GetDefaultFocus(children[b][i], NumViews)]

\* the first entry of a sequence of results that is not null, or null
FirstNonNull(results) ==
    IF \E i \in 1..Len(results) : results[i] # Null
    THEN results[CHOOSE i \in 1..Len(results) :
                    /\ results[i] # Null
                    /\ \A j \in 1..(i - 1) : results[j] = Null]
    ELSE Null

\* the result of a chain of fallbacks, each taken when the one before is null
FallbackChain(b) ==
    LET viaLast == IF lastFocusedView[b] # Null
                   THEN GetDefaultFocus(lastFocusedView[b], NumViews)
                   ELSE Null
        viaIndex == IF defaultFocusedIndex[b] < Len(children[b])
                    THEN ChildResolutions(b)[defaultFocusedIndex[b] + 1]
                    ELSE Null
    IN  IF focusable[b] THEN b
        ELSE IF viaLast # Null THEN viaLast
        ELSE IF viaIndex # Null THEN viaIndex
        ELSE FirstNonNull(ChildResolutions(b))

\* C21: getDefaultFocus() of a Box is the result of the chain of fallbacks
\* (the Box if focusable, else the resolution of lastFocusedView, else that of
\* the child at defaultFocusedIndex, else the first child that resolves, else
\* null); it is null only if the Box is not focusable and no child resolves
C21_DefaultFocusFallbacks ==
    (call.op = "getDefaultFocus" /\ status = "running")
    => /\ call.ret = FallbackChain(call.box)
       /\ call.ret = Null =>
             /\ ~focusable[call.box]
             /\ \A i \in 1..Len(children[call.box]) :
                    ChildResolutions(call.box)[i] = Null

(***************************************************************************)
(* Properties of the sibling scan, by the position of the current view     *)
(***************************************************************************)
\* the 1-based places of the siblings on the side of `view` the direction goes to
SideOf(b, direction, view) ==
    LET at == FindIndex(children[b], view) + 1
    IN  {i \in 1..Len(children[b]) : IF Forward(b, direction) THEN i > at ELSE i < at}

\* the places on that side whose child resolves to a default focus
ResolvingOn(b, direction, view) ==
    {i \in SideOf(b, direction, view) :
        GetDefaultFocus(children[b][i], NumViews) # Null}

\* the place of ResolvingOn nearest to the current view
Nearest(b, direction, view) ==
    CHOOSE i \in ResolvingOn(b, direction, view) :
        \A j \in ResolvingOn(b, direction, view) :
            IF Forward(b, direction) THEN i <= j ELSE i >= j

\* C22: for a direction aligned with the axis, the local scan of getNextFocus
\* yields the getDefaultFocus() of the nearest sibling after (RIGHT, DOWN) or
\* before (LEFT, UP) the current view that resolves, and null only when no
\* sibling on that side resolves
C22_ScanFindsNearestSibling ==
    (/\ call.op = "getNextFocus"
     /\ status = "running"
     /\ Aligned(call.box, call.dir))
    => IF ResolvingOn(call.box, call.dir, call.view) = {}
       THEN call.cand = Null
       ELSE call.cand =
                GetDefaultFocus(
                    children[call.box][Nearest(call.box, call.dir, call.view)],
                    NumViews)

(***************************************************************************)
(* Directions the axis of the Box does not service                         *)
(***************************************************************************)
\* UP / DOWN on a ROW Box, LEFT / RIGHT on a COLUMN Box
Misaligned(b, direction) ==
    \/ axis[b] = "ROW" /\ direction \in {"UP", "DOWN"}
    \/ axis[b] = "COLUMN" /\ direction \in {"LEFT", "RIGHT"}

OffTheEnd(b, direction, view) ==
    \/ /\ Forward(b, direction)
       /\ FindIndex(children[b], view) = Len(children[b]) - 1
    \/ /\ Backward(b, direction)
       /\ FindIndex(children[b], view) = 0

\* C24: on a Box without parent, an aligned query from the last child
\* (RIGHT, DOWN) or from the child at index 0 (LEFT, UP) reads nothing outside
\* the child sequence and returns null
C24_OffTheEndReturnsNull ==
    (/\ call.op = "getNextFocus"
     /\ parent[call.box] = Null
     /\ OffTheEnd(call.box, call.dir, call.view))
    => /\ status = "running"
       /\ call.cand = Null
       /\ call.ret = Null

(***************************************************************************)
(* The effects of one addView                                              *)
(***************************************************************************)
\* what a successful addView(view, position) on Box b does to b and to view
AddViewEffects(b, view, position) ==
    /\ Len(children'[b]) = Len(children[b]) + 1
    /\ children'[b][position + 1] = view
    /\ \A i \in 1..Len(children[b]) :
           children'[b][IF i <= position THEN i ELSE i + 1] = children[b][i]
    /\ parent'[view] = b
    /\ parentUserData'[view] = position
    /\ \A i \in 1..Len(children[b]) :
           parentUserData'[children[b][i]] =
               IF i <= position
               THEN parentUserData[children[b][i]]
               ELSE parentUserData[children[b][i]] + 1
    /\ layoutDirty'[b]
    /\ call'.events = <<<<"invalidate", b>>, <<"willAppear", view>>>>

\* C25: a successful addView(view, position) puts view at index position and
\* keeps the order of the other children, makes this Box the parent of view,
\* caches position as the index of view, adds exactly one to the cached index
\* of every child after it and leaves those before it alone, and marks the
\* layout dirty before it calls the view's willAppear hook
C25_AddViewEffects ==
    [][(call'.op = "addView" /\ status' = "running")
       => AddViewEffects(call'.box, call'.view, call'.pos)]_vars

\* an addView between two children of a Box
C25_Witness ==
    /\ call.op = "addView"
    /\ status = "running"
    /\ call.pos >= 1
    /\ Len(children[call.box]) > call.pos + 1
    /\ children[call.box][call.pos + 1] = call.view
    /\ parentUserData[call.view] = call.pos

(***************************************************************************)
(* addView without a position                                              *)
(***************************************************************************)
\* C26: addView(view) appends: after the call the view is the last element
\* of the child sequence of the Box, also when the Box holds detached
\* children
C26_AddViewAppends ==
    [][\A box \in Boxes, view \in Views :
           (AddViewLast(box, view) /\ status' = "running")
           => children'[box][Len(children'[box])] = view]_vars

(***************************************************************************)
(* The effects of one clearViews                                           *)
(***************************************************************************)
\* the views named by the events of one kind, in the order they happened
EventsOf(events, kind) ==
    LET chosen == SelectSeq(events, LAMBDA e : e[1] = kind)
    IN  [i \in 1..Len(chosen) |-> chosen[i][2]]

\* a sequence from its last element to its first
LastToFirst(s) == [i \in 1..Len(s) |-> s[Len(s) + 1 - i]]

\* C27: clearViews(free) leaves the Box without children, its layout node
\* without children and lastFocusedView null; the children get the
\* willDisappear hook (and are destroyed when free is set) once each, from the
\* last to the first, and the layout is marked dirty once, after all removals
C27_ClearViewsEffects ==
    [][call'.op = "clearViews"
       => LET b == call'.box
              events == call'.events
          IN  /\ children'[b] = <<>>
              /\ ygChildren'[b] = <<>>
              /\ lastFocusedView'[b] = Null
              /\ EventsOf(events, "willDisappear") = LastToFirst(children[b])
              /\ EventsOf(events, "freeView") =
                     IF call'.free THEN LastToFirst(children[b]) ELSE <<>>
              /\ call'.free => Range(children[b]) \subseteq freed'
              /\ ~call'.free => freed' = freed
              /\ EventsOf(events, "invalidate") = <<b>>
              /\ events[Len(events)] = <<"invalidate", b>>
              /\ layoutDirty'[b]]_vars

\* a clearViews(true) of a Box that held two children, one of them detached:
\* both were destroyed and the Box is empty
C27_Witness ==
    /\ call.op = "clearViews"
    /\ call.free
    /\ EventsOf(call.events, "freeView") \in
           {<<x, y>> : x \in Views, y \in Views}
    /\ \E v \in Range(EventsOf(call.events, "freeView")) : detached[v]
    /\ children[call.box] = <<>>
    /\ lastFocusedView[call.box] = Null

(***************************************************************************)
(* One-shot cancellation                                                   *)
(***************************************************************************)
\* the render thread leaves the cancel check of an operation whose id is in
\* the cancel set
DropStep ==
    /\ rpc = "check"
    /\ rpc' # "check"
    /\ Head(delay_local).index \in m_delay_cancel_set

\* C28: when performSyncTasks takes a pending delayed operation whose id is in
\* the cancel set, the same step drops it (it is neither executed nor queued
\* again, now or later) and removes its id, and only its id, from the cancel
\* set; the other operations stay where they are
C28_CancellationIsOneShot ==
    /\ [][DropStep
          => /\ m_delay_cancel_set' = m_delay_cancel_set \ {Head(delay_local).index}
             /\ Head(delay_local).index \notin m_delay_cancel_set'
             /\ Head(delay_local) \in dropped'
             /\ delay_local' = Tail(delay_local)
             /\ executed' = executed
             /\ m_delay_tasks' = m_delay_tasks]_vars
    /\ [](\A d \in dropped :
             /\ d.func.token \notin ExecutedTokens
             /\ d \notin Range(m_delay_tasks)
             /\ d \notin Range(delay_local))

\* an operation was dropped as cancelled, its id left the cancel set, and
\* another delayed operation is still pending
C28_Witness ==
    /\ \E d \in dropped : d.index \notin m_delay_cancel_set
    /\ \E op \in Range(m_delay_tasks) \cup Range(delay_local) : op \notin dropped

(***************************************************************************)
(* Focus notifications along the path to the root                          *)
(***************************************************************************)
\* the Box whose child sequence holds the view, or null
Holder(v) ==
    IF \E b \in Boxes : v \in Range(children[b])
    THEN CHOOSE b \in Boxes : v \in Range(children[b])
    ELSE Null

RECURSIVE PathToRoot(_, _)
\* the pairs <<ancestor Box, its direct child on the path>> from v to the root
PathToRoot(v, fuel) ==
    IF Holder(v) = Null \/ fuel = 0
    THEN {}
    ELSE {<<Holder(v), v>>} \cup PathToRoot(Holder(v), fuel - 1)

\* C29: when a view gains focus, every ancestor Box on the path from the view
\* to the root has its lastFocusedView set to its own direct child on that
\* path and the Boxes off the path keep theirs; when it loses focus,
\* onChildFocusLost runs on every ancestor
C29_FocusPathRemembered ==
    [][/\ (call'.op = "focusGained" /\ status' = "running")
          => \A b \in Boxes :
                 IF \E pair \in PathToRoot(call'.view, NumViews) : pair[1] = b
                 THEN <<b, lastFocusedView'[b]>> \in PathToRoot(call'.view, NumViews)
                 ELSE lastFocusedView'[b] = lastFocusedView[b]
       /\ (call'.op = "focusLost" /\ status' = "running")
          => \A pair \in PathToRoot(call'.view, NumViews) :
                 <<"onChildFocusLost", pair[1]>> \in Range(call'.events)]_vars

(***************************************************************************)
(* Culling in draw                                                         *)
(***************************************************************************)
Coords == 0..MaxCoord

\* the point lies in the rectangle, boundaries included
Within(rect, px, py) ==
    /\ rect.x <= px /\ px <= rect.x + rect.width
    /\ rect.y <= py /\ py <= rect.y + rect.height

\* the two rectangles have a point in common
Overlap(r1, r2) ==
    \E px \in Coords, py \in Coords : Within(r1, px, py) /\ Within(r2, px, py)

RECURSIVE UpToRoot(_, _)
\* a Box and the Boxes above it, along the parent references
UpToRoot(b, fuel) ==
    IF b = Null \/ fuel = 0 THEN {} ELSE {b} \cup UpToRoot(parent[b], fuel - 1)

\* C30: draw visits the children in sequence order; a child that is no Box
\* and is cullable is drawn if and only if its rectangle overlaps, boundaries
\* included, the rectangle of this Box and of every Box above it up to the
\* root; a child that is a Box or is not cullable is always drawn
C30_DrawCulling ==
    (call.op = "draw" /\ status = "running")
    => LET b == call.box
           drawn == EventsOf(call.events, "frame")
       IN  /\ drawn = SelectSeq(children[b], LAMBDA c : c \in Range(drawn))
           /\ \A c \in Range(children[b]) :
                  c \in Range(drawn)
                  <=> \/ c \in Boxes
                      \/ ~culled[c]
                      \/ \A a \in UpToRoot(b, NumViews) : Overlap(frame[c], frame[a])

\* a draw of a nested Box that skipped one cullable child and drew another
\* whose rectangle only touches the rectangle of a Box above it
C30_Witness ==
    /\ call.op = "draw"
    /\ status = "running"
    /\ parent[call.box] # Null
    /\ \E c \in Range(children[call.box]) :
           c \notin Range(EventsOf(call.events, "frame"))
    /\ \E c \in Range(EventsOf(call.events, "frame")) :
           /\ c \in Leaves /\ culled[c]
           /\ \E a \in UpToRoot(call.box, NumViews) :
                  frame[c].x = frame[a].x + frame[a].width

(***************************************************************************)
(* Conservation of tasks under interleaving                                *)
(***************************************************************************)
\* 1 when the operation was dropped as cancelled, else 0
TimesDropped(op) == IF op \in dropped THEN 1 ELSE 0

\* C31: whatever the interleaving of sync() and delay() calls with a running
\* performSyncTasks, no task is lost or duplicated: a function passed to
\* sync() is waiting in the sync queue, waiting in the swapped-out copy of a
\* tick, or was executed, exactly one of the three and exactly once; after
\* each tick a delayed task was executed once, or was dropped as cancelled,
\* or is in the delayed queue exactly once
C31_NoTaskLostOrDuplicated ==
    /\ \A token \in Range(enqueued.sync) :
           TimesExecuted(token) + TimesQueued(m_sync_functions, token)
               + TimesQueued(local, token) = 1
    /\ rpc = "idle" =>
          \A op \in registered :
              TimesExecuted(op.func.token) + TimesDropped(op)
                  + TimesIn(m_delay_tasks, op) = 1

(***************************************************************************)
(* The next focus is another view                                          *)
(***************************************************************************)
\* C32: in every state reached through addView and removeView, getNextFocus
\* called with a current child of the Box never returns that child, and its
\* sibling scan never yields a view of the subtree of that child
C32_NextFocusIsAnotherView ==
    (call.op = "getNextFocus" /\ status = "running")
    => /\ call.ret # call.view
       /\ call.cand # Null => call.cand \notin Subtree(call.view, NumViews)

(***************************************************************************)
(* Parent references and membership                                        *)
(***************************************************************************)
\* C33: after any sequence of addView, removeView(view, false) and
\* clearViews(false), the parent reference of a view designates a Box if and
\* only if the view is in the child sequence of that Box
C33_ParentAgreesWithMembership ==
    \A v \in Views \ freed : \A b \in Boxes :
        parent[v] = b <=> v \in Range(children[b])

====
